---------------------------- MODULE Spec2Model ----------------------------
(***************************************************************************)
(* A model of tumblr-utils' incremental backup orchestrator.               *)
(*                                                                         *)
(* The program is modelled as several state machines over one set of      *)
(* variables, one specification per component:                             *)
(*   SpecPool    the ThreadPool (src/tumblr_utils/threading.py) with its   *)
(*               producer, its workers and the disk-full Fault Signal      *)
(*   SpecFile    TumblrPost.save_post over open_outfile, the temp-file     *)
(*               and rename protocol (src/tumblr_utils/utils/__init__.py)  *)
(*   SpecMedia   TumblrPost.download_media and the set of media paths      *)
(*               being downloaded (src/tumblr_utils/posts/tumblr.py)       *)
(*   SpecBackup  one target's TumblrBackup.backup: the planner             *)
(*               process_existing_backup, the Response Source ApiParser    *)
(*               and the driver loop (src/tumblr_backup.py,                *)
(*               src/tumblr_utils/api_parser.py)                           *)
(*   SpecMain    the loop of __main__ over the requested targets, each     *)
(*               one a TumblrBackup.backup (src/tumblr_backup.py)          *)
(* Each specification leaves the variables of the other components at      *)
(* their idle values.                                                      *)
(***************************************************************************)
EXTENDS Integers, Sequences, FiniteSets, TLC

VARIABLES
    \* ---- ThreadPool (threading.py) ----
    queue,            \* ThreadPool.queue.queue: the queued Work Items, oldest first
    unfinished_tasks, \* queue.unfinished_tasks
    quit_flag,        \* ThreadPool.quit_flag
    abort_flag,       \* ThreadPool.abort_flag
    errors,           \* ThreadPool.errors
    threads,          \* per worker: where its handler() is
    work,             \* per worker: the Work Item it holds (0: none)
    enospc_flag,      \* the disk-full Fault Signal: "raised" | "clear" | "destroyed"
    ppc,              \* the producer (main thread): where it is in the pool's life cycle
    nadded,           \* Work Items handed to add_work so far
    \* history of the pool, for the properties
    attempts,         \* per item: calls of work() so far
    lastOutcome,      \* per item: how its latest work() call ended
    doneCnt,          \* per item: task_done() calls made for it
    signalCnt,        \* per item: enospc.signal() calls made for it
    abortQueue,       \* the items queued when cancel() set the abort flag
    abortBusy,        \* the workers holding an item when cancel() set the abort flag
    \* ---- save_post / open_outfile (posts/tumblr.py, utils/__init__.py) ----
    fs,               \* per final path <<kind, post id>>: the file under that name
    partf,            \* per saver: its temporary file (open_outfile._partf)
    spc,              \* per saver: where its save_post() is
    sphase,           \* per saver: the file it is writing, "json" or "post"
    spost,            \* per saver: the post id its Work Item closes over
    sexc,             \* per saver: an exception was raised while it wrote its file
    opt_json,         \* options.json and not options.reuse_json
    killed,           \* the process was killed
    \* history of the files, for the properties
    fs0,              \* fs before the run
    replaced,         \* the final paths some os.replace() has renamed a temp file to
    \* ---- download_media (posts/tumblr.py) ----
    downloading_media, \* the media paths some thread is downloading
    media_file,       \* per media path: whether a file exists there
    prev_media,       \* the media paths the previous archive holds (none without one)
    no_get,           \* options.no_get
    mpc,              \* per downloader: where its download_media() is
    media_path,       \* per downloader: the media path of its URL
    mresult,          \* per downloader: what download_media() returned
    \* history of the downloads, for the properties
    retrieved,        \* per downloader: calls of wget_retrieve it made
    media_file0,      \* media_file before the run
    \* ---- __main__ and TumblrBackup (tumblr_backup.py) ----
    proc,             \* the process: "running" | "crashed" (uncaught exception) | "exited"
    blogs,            \* the requested targets, in order
    acct,             \* index into blogs of the target being backed up
    failed_blogs,     \* TumblrBackup.failed_blogs
    postfail_blogs,   \* TumblrBackup.postfail_blogs
    total_count,      \* TumblrBackup.total_count
    exit_status,      \* the status the process exited with (None while it runs)
    raised,           \* the exception that ended the process ("" if none)
    orig_options,     \* the options as given, after the implied ones were set
    options,          \* the options namespace, which the planner rewrites per target
    \* ---- the world outside the program ----
    all_posts,        \* the post ids that exist at all in this run
    timestamp,        \* per post: its timestamp (its liked_timestamp in likes mode)
    utcoffset,        \* the local time zone's offset from UTC, in timestamp units
    source_posts,     \* the posts the blog (or the archive replayed) holds
    first_run_options, \* the target's .first_run_options file
    complete_backup,  \* the target's .complete file exists
    post_glob,        \* the post files in the target's archive
    \* ---- ApiParser (api_parser.py) ----
    prev_resps,       \* ApiParser.prev_resps
    prev_iter,        \* ApiParser._prev_iter: how many of prev_resps it has consumed
    last_mode,        \* ApiParser._last_mode
    last_offset,      \* ApiParser._last_offset
    dashboard_only_blog, \* ApiParser.dashboard_only_blog: "None" | "True" | "False"
    \* ---- TumblrBackup.backup (tumblr_backup.py) ----
    bpc,              \* where backup() is
    post_count,       \* TumblrBackup.post_count
    filter_skipped,   \* TumblrBackup.filter_skipped
    oldest_tstamp,    \* the Resume Cursor the planner returned
    write_fro,        \* the planner's write_fro
    ident_max,        \* the Incremental Ceiling
    before,           \* the 'before' bound of the next fetch
    start,            \* the offset of the next fetch (i in backup())
    resp,             \* the response the loop is working on
    pending,          \* the Work Items enqueued and not saved yet
    \* history of the target's backup, for the properties
    enqueued,         \* the post ids handed to add_work, in order
    pages,            \* the pages the loop fetched, in order
    visited,          \* per page processed: the posts _backup visited, in order
    source_calls,     \* the Response Source calls made, in order
    post_glob0,       \* post_glob when backup() began
    \* ---- the suspension points (tumblr_backup.py, threading.py, posts/tumblr.py) ----
    asleep,           \* per thread: the suspension point it is blocked at ("none": awake)
    fault,            \* the Fault Signals that are raised
    \* history of the suspension points, for the properties
    at_raise,         \* the threads the latest raise of a Fault Signal woke, and left asleep
    remaining_idents, \* backup()'s remaining_idents (<<>> while options.idents is None)
    next_ident,       \* backup()'s next_ident
    not_found,        \* the ids logged as "post '...' not found", in order
    lpc,              \* where the Live source's apiparse() is: "idle" | "get_resp" | "raised"
    try_count,        \* _get_resp's try_count
    answers,          \* the server's answers to the requests of this apiparse() call,
                      \*   each with what _get_resp did on it
    lresult,          \* what the latest apiparse() call came to
    recursions,       \* the calls apiparse() made to itself for the svc API
    ncalls,           \* the apiparse() calls made on this ApiParser
    \* ---- the media list (tumblr_backup.py, utils/__init__.py) ----
    media_json,       \* the lines of media.json in the target's folder: post ids
    media_list_file,  \* TumblrBackup.media_list_file: whether it is open, and the
                      \*   lines of the file it writes to
    mlf_seen,         \* TumblrBackup.mlf_seen
    \* history of the media list, for the properties
    mlf_earlier,      \* the post ids whose entry a completed run left in media.json
    mlf_runs,         \* the runs begun
    \* ---- _backup's loop over the posts of a page, post by post ----
    filters,          \* the options _backup reads that the driver's model leaves at
                      \*   their defaults: period, request, no_reblog, only_reblog, filter
    cpost,            \* the post the loop visited last
    decision,         \* the check of the loop body that dealt with it
    cres              \* "loop" while the loop runs, then what _backup came to

poolVars == <<queue, unfinished_tasks, quit_flag, abort_flag, errors, threads, work,
              enospc_flag, ppc, nadded, attempts, lastOutcome, doneCnt, signalCnt,
              abortQueue, abortBusy>>

fileVars == <<fs, partf, spc, sphase, spost, sexc, opt_json, killed, fs0, replaced>>

mediaVars == <<downloading_media, media_file, prev_media, no_get, mpc, media_path,
               mresult, retrieved, media_file0>>

backupVars == <<proc, blogs, acct, failed_blogs, postfail_blogs, total_count,
                exit_status, raised, orig_options, options, all_posts, timestamp,
                utcoffset, source_posts, first_run_options,
                complete_backup, post_glob, prev_resps, prev_iter, last_mode,
                last_offset, dashboard_only_blog, bpc, post_count, filter_skipped,
                oldest_tstamp, write_fro, ident_max, before, start, resp, pending,
                enqueued, pages, visited, source_calls, post_glob0>>

waitVars == <<asleep, fault, at_raise>>

identVars == <<remaining_idents, next_ident, not_found>>

liveVars == <<lpc, try_count, answers, lresult, recursions, ncalls>>

listVars == <<media_json, media_list_file, mlf_seen, mlf_earlier, mlf_runs>>

checkVars == <<filters, cpost, decision, cres>>

vars == <<poolVars, fileVars, mediaVars, backupVars, waitVars, identVars, liveVars,
          listVars, checkVars>>

\* what each component leaves alone
notPool == <<fileVars, mediaVars, backupVars, waitVars, identVars, liveVars, listVars, checkVars>>
notFile == <<poolVars, mediaVars, backupVars, waitVars, identVars, liveVars, listVars, checkVars>>
notMedia == <<poolVars, fileVars, backupVars, waitVars, identVars, liveVars, listVars, checkVars>>
notBackup == <<poolVars, fileVars, mediaVars, waitVars, identVars, liveVars, listVars, checkVars>>
notDriver == <<poolVars, fileVars, mediaVars, waitVars, liveVars, listVars, checkVars>>
notLive == <<poolVars, fileVars, mediaVars, waitVars, identVars, listVars, checkVars>>
notWait == <<poolVars, fileVars, mediaVars, backupVars, identVars, liveVars, listVars, checkVars>>
notList == <<poolVars, fileVars, mediaVars, backupVars, waitVars, identVars, liveVars, checkVars>>
notChecks == <<poolVars, fileVars, mediaVars, waitVars, liveVars, listVars>>

----------------------------------------------------------------------------
(* Bounds *)

\* options.threads: the number of worker threads
NThreads == 2
\* max_queue: the queue's capacity
MaxQueue == 1
\* the Work Items the producer hands over in one run
MaxItems == 2
\* the calls of work() one item may take (caps the disk-full retries)
MaxAttempts == 3

\* the save_post() calls running side by side
NSavers == 2

\* the download_media() calls running side by side
NDownloaders == 2

Workers == 1..NThreads
Items == 1..MaxItems

----------------------------------------------------------------------------
(* The ThreadPool *)

\* ThreadPool.__init__: flags down, every worker thread started
InitPool ==
    /\ queue = <<>>
    /\ unfinished_tasks = 0
    /\ quit_flag = FALSE
    /\ abort_flag = FALSE
    /\ errors = FALSE
    /\ threads = [w \in Workers |-> "wait_for_work"]
    /\ work = [w \in Workers |-> 0]
    /\ enospc_flag = "clear"
    /\ ppc = "produce"
    /\ nadded = 0
    /\ attempts = [i \in Items |-> 0]
    /\ lastOutcome = [i \in Items |-> "none"]
    /\ doneCnt = [i \in Items |-> 0]
    /\ signalCnt = [i \in Items |-> 0]
    /\ abortQueue = <<>>
    /\ abortBusy = {}

\* the pool of a component that is not running: no worker, nothing queued
IdlePool ==
    /\ queue = <<>>
    /\ unfinished_tasks = 0
    /\ quit_flag = FALSE
    /\ abort_flag = FALSE
    /\ errors = FALSE
    /\ threads = [w \in Workers |-> "exited"]
    /\ work = [w \in Workers |-> 0]
    /\ enospc_flag = "clear"
    /\ ppc = "none"
    /\ nadded = 0
    /\ attempts = [i \in Items |-> 0]
    /\ lastOutcome = [i \in Items |-> "none"]
    /\ doneCnt = [i \in Items |-> 0]
    /\ signalCnt = [i \in Items |-> 0]
    /\ abortQueue = <<>>
    /\ abortBusy = {}

poolHistory == <<attempts, lastOutcome, doneCnt, signalCnt, abortQueue, abortBusy>>

\* the worker threads that have not returned from handler()
LiveWorkers == {w \in Workers : threads[w] \notin {"exited", "died"}}

\* (mutant) an enqueue without the wait for queue space
AddWorkNoBackpressure ==
    /\ ppc = "produce"
    /\ nadded < MaxItems
    /\ queue' = Append(queue, nadded + 1)
    /\ unfinished_tasks' = unfinished_tasks + 1
    /\ nadded' = nadded + 1
    /\ UNCHANGED <<quit_flag, abort_flag, errors, threads, work, enospc_flag, ppc,
                   poolHistory>>
    /\ UNCHANGED notPool

\* the producer's enqueue: wait while the queue is at capacity, then add_work
\* (queue.put: append and count the task as unfinished)
AddWork ==
    /\ ppc = "produce"
    /\ nadded < MaxItems
    /\ Len(queue) < MaxQueue
    /\ queue' = Append(queue, nadded + 1)
    /\ unfinished_tasks' = unfinished_tasks + 1
    /\ nadded' = nadded + 1
    /\ UNCHANGED <<quit_flag, abort_flag, errors, threads, work, enospc_flag, ppc,
                   poolHistory>>
    /\ UNCHANGED notPool

\* ThreadPool.wait(), up to its loop: no more work will be added
PoolWait ==
    /\ ppc = "produce"
    /\ quit_flag' = TRUE
    /\ ppc' = "wait"
    /\ UNCHANGED <<queue, unfinished_tasks, abort_flag, errors, threads, work,
                   enospc_flag, nadded, poolHistory>>
    /\ UNCHANGED notPool

\* ThreadPool.wait(): the loop ends when no task is unfinished
PoolWaitReturn ==
    /\ ppc = "wait"
    /\ unfinished_tasks = 0
    /\ ppc' = "waited"
    /\ UNCHANGED <<queue, unfinished_tasks, quit_flag, abort_flag, errors, threads,
                   work, enospc_flag, nadded, poolHistory>>
    /\ UNCHANGED notPool

\* enospc.check() on the main thread, at each of its suspension points: a raised
\* signal is cleared once the condition has gone
EnospcCheck ==
    /\ ppc \in {"produce", "wait"}
    /\ enospc_flag = "raised"
    /\ enospc_flag' = "clear"
    /\ UNCHANGED <<queue, unfinished_tasks, quit_flag, abort_flag, errors, threads,
                   work, ppc, nadded, poolHistory>>
    /\ UNCHANGED notPool

\* ThreadPool.cancel(), up to the joins: abort flag, wake everyone, destroy the signals
CancelBegin ==
    /\ ppc \in {"produce", "wait"}
    /\ abort_flag' = TRUE
    /\ enospc_flag' = "destroyed"
    /\ ppc' = "join"
    /\ abortQueue' = queue
    /\ abortBusy' = {w \in Workers : work[w] # 0}
    /\ UNCHANGED <<queue, unfinished_tasks, quit_flag, errors, threads, work, nadded,
                   attempts, lastOutcome, doneCnt, signalCnt>>
    /\ UNCHANGED notPool

\* (mutant) cancel() that does not join its threads
CancelJoinSkipped == TRUE

\* what cancel() waits for before it clears the queue: t.join() of every thread
CancelJoinDone == LiveWorkers = {}

\* ThreadPool.cancel(), after the joins: discard what is still queued
CancelEnd ==
    /\ ppc = "join"
    /\ CancelJoinDone
    /\ queue' = <<>>
    /\ ppc' = "cancelled"
    /\ UNCHANGED <<unfinished_tasks, quit_flag, abort_flag, errors, threads, work,
                   enospc_flag, nadded, poolHistory>>
    /\ UNCHANGED notPool

\* handler.wait_for_work() returning True: not aborted and the queue holds work
WorkAvailable == ~abort_flag /\ Len(queue) > 0

\* handler.wait_for_work() returning False: aborted, or quitting with nothing queued
NoMoreWork == abort_flag \/ (Len(queue) = 0 /\ quit_flag)

\* handler(): wait_for_work() returned True; pop one Work Item
WorkerGet(w) ==
    /\ threads[w] = "wait_for_work"
    /\ WorkAvailable
    /\ work' = [work EXCEPT ![w] = Head(queue)]
    /\ queue' = Tail(queue)
    /\ threads' = [threads EXCEPT ![w] = "work"]
    /\ UNCHANGED <<unfinished_tasks, quit_flag, abort_flag, errors, enospc_flag, ppc,
                   nadded, poolHistory>>
    /\ UNCHANGED notPool

\* handler(): wait_for_work() returned False; the thread returns
WorkerBreak(w) ==
    /\ threads[w] = "wait_for_work"
    /\ NoMoreWork
    /\ threads' = [threads EXCEPT ![w] = "exited"]
    /\ UNCHANGED <<queue, unfinished_tasks, quit_flag, abort_flag, errors, work,
                   enospc_flag, ppc, nadded, poolHistory>>
    /\ UNCHANGED notPool

\* queue.task_done() for the item worker w holds
TaskDone(w) ==
    /\ unfinished_tasks' = unfinished_tasks - 1
    /\ doneCnt' = [doneCnt EXCEPT ![work[w]] = @ + 1]

\* (mutant) a handler that does not record the failure of an item
WorkReturnsUnrecorded(w, success) ==
    /\ threads[w] = "work"
    /\ attempts' = [attempts EXCEPT ![work[w]] = @ + 1]
    /\ lastOutcome' = [lastOutcome EXCEPT ![work[w]] = IF success THEN "ok" ELSE "failed"]
    /\ TaskDone(w)
    /\ work' = [work EXCEPT ![w] = 0]
    /\ threads' = [threads EXCEPT ![w] = "wait_for_work"]
    /\ UNCHANGED <<queue, quit_flag, abort_flag, errors, enospc_flag, ppc, nadded,
                   signalCnt, abortQueue, abortBusy>>
    /\ UNCHANGED notPool

\* handler(): work() returned `success`; task_done, record a failure, next item
WorkReturns(w, success) ==
    /\ threads[w] = "work"
    /\ attempts' = [attempts EXCEPT ![work[w]] = @ + 1]
    /\ lastOutcome' = [lastOutcome EXCEPT ![work[w]] = IF success THEN "ok" ELSE "failed"]
    /\ TaskDone(w)
    /\ errors' = (errors \/ ~success)
    /\ work' = [work EXCEPT ![w] = 0]
    /\ threads' = [threads EXCEPT ![w] = "wait_for_work"]
    /\ UNCHANGED <<queue, quit_flag, abort_flag, enospc_flag, ppc, nadded, signalCnt,
                   abortQueue, abortBusy>>
    /\ UNCHANGED notPool

\* enospc.signal() called by worker w: raise the disk-full signal and block until
\* it is cleared (a destroyed signal blocks nobody)
EnospcSignal(w) ==
    /\ signalCnt' = [signalCnt EXCEPT ![work[w]] = @ + 1]
    /\ IF enospc_flag = "destroyed"
       THEN /\ threads' = [threads EXCEPT ![w] = "work"]
            /\ UNCHANGED enospc_flag
       ELSE /\ threads' = [threads EXCEPT ![w] = "enospc_signal"]
            /\ enospc_flag' = "raised"

\* (mutant) a handler that gives the item up on ENOSPC: task_done and next item
WorkRaisesEnospcDropsItem(w) ==
    /\ threads[w] = "work"
    /\ attempts[work[w]] + 1 < MaxAttempts
    /\ attempts' = [attempts EXCEPT ![work[w]] = @ + 1]
    /\ lastOutcome' = [lastOutcome EXCEPT ![work[w]] = "enospc"]
    /\ TaskDone(w)
    /\ work' = [work EXCEPT ![w] = 0]
    /\ threads' = [threads EXCEPT ![w] = "wait_for_work"]
    /\ UNCHANGED <<queue, quit_flag, abort_flag, errors, enospc_flag, ppc, nadded,
                   signalCnt, abortQueue, abortBusy>>
    /\ UNCHANGED notPool

\* handler(): work() raised OSError(ENOSPC); signal and retry the same item
\* (the item is kept)
WorkRaisesEnospc(w) ==
    /\ threads[w] = "work"
    /\ attempts[work[w]] + 1 < MaxAttempts
    /\ attempts' = [attempts EXCEPT ![work[w]] = @ + 1]
    /\ lastOutcome' = [lastOutcome EXCEPT ![work[w]] = "enospc"]
    /\ EnospcSignal(w)
    /\ UNCHANGED <<queue, unfinished_tasks, quit_flag, abort_flag, errors, work, ppc,
                   nadded, doneCnt, abortQueue, abortBusy>>
    /\ UNCHANGED notPool

\* handler(): enospc.signal() returns once the signal is no longer raised; the
\* inner loop continues with the same item
EnospcSignalReturns(w) ==
    /\ threads[w] = "enospc_signal"
    /\ enospc_flag # "raised"
    /\ threads' = [threads EXCEPT ![w] = "work"]
    /\ UNCHANGED <<queue, unfinished_tasks, quit_flag, abort_flag, errors, work,
                   enospc_flag, ppc, nadded, poolHistory>>
    /\ UNCHANGED notPool

\* handler(): work() raised anything else; the error is re-raised, the finally
\* clause calls task_done, and the exception leaves handler(): the thread ends
\* with `errors` untouched
WorkRaisesOther(w) ==
    /\ threads[w] = "work"
    /\ attempts' = [attempts EXCEPT ![work[w]] = @ + 1]
    /\ lastOutcome' = [lastOutcome EXCEPT ![work[w]] = "raised"]
    /\ TaskDone(w)
    /\ work' = [work EXCEPT ![w] = 0]
    /\ threads' = [threads EXCEPT ![w] = "died"]
    /\ UNCHANGED <<queue, quit_flag, abort_flag, errors, enospc_flag, ppc, nadded,
                   signalCnt, abortQueue, abortBusy>>
    /\ UNCHANGED notPool

\* one step of ThreadPool.handler() in worker w
Handler(w) ==
    \/ WorkerGet(w)
    \/ WorkerBreak(w)
    \/ \E success \in BOOLEAN : WorkReturns(w, success)
    \/ WorkRaisesEnospc(w)
    \/ EnospcSignalReturns(w)
    \/ WorkRaisesOther(w)

NextPool ==
    \/ AddWork
    \/ PoolWait
    \/ PoolWaitReturn
    \/ EnospcCheck
    \/ CancelBegin
    \/ CancelEnd
    \/ \E w \in Workers : Handler(w)


----------------------------------------------------------------------------
(* save_post and open_outfile *)

Savers == 1..NSavers
\* the post ids they save: as many as there are savers, so that two Work Items
\* may be for one post (a post id repeated by the source) or for different ones
FilePosts == 1..NSavers
\* the target's .first_run_options and .complete files
OptionsPath == <<"options", 0>>
MarkerPath == <<"complete", 0>>
\* the final paths written through open_outfile
Paths == ({"json", "post"} \X FilePosts) \cup {OptionsPath}
\* every file the program persists
Files == Paths \cup {MarkerPath}

\* a name with no file under it
NoFile == [content |-> "absent", mode |-> "none", synced |-> FALSE]
\* a complete file left by an earlier run
OldFile == [content |-> "old", mode |-> "0644", synced |-> TRUE]

\* the final path saver s is writing: file_path_to(*parts)
DestPath(s) == IF sphase[s] = "options" THEN OptionsPath ELSE <<sphase[s], spost[s]>>

\* before any save_post(): each post was saved by an earlier run, or not at all
InitFile ==
    /\ \E prior \in SUBSET FilePosts :
          fs = [f \in Files |-> IF f[2] \in prior THEN OldFile ELSE NoFile]
    /\ fs0 = fs
    /\ partf = [s \in Savers |-> NoFile]
    /\ spc = [s \in Savers |-> "start"]
    /\ sphase = [s \in Savers |-> "post"]
    /\ spost \in {f \in [Savers -> FilePosts] :
                    \A s \in Savers : s > 1 => f[s - 1] <= f[s]}
    /\ sexc = [s \in Savers |-> FALSE]
    /\ opt_json \in BOOLEAN
    /\ killed = FALSE
    /\ replaced = {}

\* no save_post() running
IdleFile ==
    /\ fs = [f \in Files |-> NoFile]
    /\ fs0 = fs
    /\ partf = [s \in Savers |-> NoFile]
    /\ spc = [s \in Savers |-> "none"]
    /\ sphase = [s \in Savers |-> "post"]
    /\ spost = [s \in Savers |-> 1]
    /\ sexc = [s \in Savers |-> FALSE]
    /\ opt_json = FALSE
    /\ killed = FALSE
    /\ replaced = {}

\* save_post(): the JSON document first when options.json asks for it (the
\* ThreadPool starts after .first_run_options was written)
SavePostBegin(s) ==
    /\ ~killed
    /\ spc[s] = "start"
    /\ \A t \in Savers : sphase[t] # "options"
    /\ sphase' = [sphase EXCEPT ![s] = IF opt_json THEN "json" ELSE "post"]
    /\ spc' = [spc EXCEPT ![s] = "init"]
    /\ UNCHANGED <<fs, partf, spost, sexc, opt_json, killed, fs0, replaced>>
    /\ UNCHANGED notFile

\* backup() writes .first_run_options through open_text when the planner
\* found no such file: the main thread, before it starts the ThreadPool (it
\* takes the place of the first saver, which is free again afterwards)
WriteFirstRunOptions(s) ==
    /\ ~killed
    /\ s = 1
    /\ \A t \in Savers : spc[t] \in {"start", "none"} /\ sphase[t] # "options"
    /\ fs[OptionsPath] = NoFile
    /\ sphase' = [sphase EXCEPT ![s] = "options"]
    /\ spc' = [spc EXCEPT ![s] = "init"]
    /\ UNCHANGED <<fs, partf, spost, sexc, opt_json, killed, fs0, replaced>>
    /\ UNCHANGED notFile

\* where an exception raised while writing a file leaves its writer: the post
\* write is inside save_post()'s try (caught, return False), the others are
\* under no try (the exception goes to the caller)
AfterException(s) == IF sphase[s] = "post" THEN "returned_false" ELSE "raised"

\* open_outfile.__init__: NamedTemporaryFile beside the destination (mode 0600),
\* or an OSError and no file
OutfileInit(s) ==
    /\ ~killed
    /\ spc[s] = "init"
    /\ \/ /\ partf' = [partf EXCEPT ![s] =
                        [content |-> "empty", mode |-> "0600", synced |-> FALSE]]
          /\ spc' = [spc EXCEPT ![s] = "body"]
          /\ UNCHANGED sexc
       \/ /\ sexc' = [sexc EXCEPT ![s] = TRUE]
          /\ spc' = [spc EXCEPT ![s] = AfterException(s)]
          /\ UNCHANGED partf
    /\ UNCHANGED <<fs, sphase, spost, opt_json, killed, fs0, replaced>>
    /\ UNCHANGED notFile

\* the with-body, f.write(...): part of the content reaches the temp file
BodyWritePart(s) ==
    /\ ~killed
    /\ spc[s] = "body"
    /\ partf[s].content = "empty"
    /\ partf' = [partf EXCEPT ![s].content = "partial"]
    /\ UNCHANGED <<fs, spc, sphase, spost, sexc, opt_json, killed, fs0, replaced>>
    /\ UNCHANGED notFile

\* the with-body: the rest of the content is written and the body ends
BodyWriteRest(s) ==
    /\ ~killed
    /\ spc[s] = "body"
    /\ partf[s].content = "partial"
    /\ partf' = [partf EXCEPT ![s].content = "new"]
    /\ spc' = [spc EXCEPT ![s] = "exit"]
    /\ UNCHANGED <<fs, sphase, spost, sexc, opt_json, killed, fs0, replaced>>
    /\ UNCHANGED notFile

\* the with-body raises: get_post() or get_json_content() before anything is
\* written, or f.write() part-way
BodyRaises(s) ==
    /\ ~killed
    /\ spc[s] = "body"
    /\ sexc' = [sexc EXCEPT ![s] = TRUE]
    /\ spc' = [spc EXCEPT ![s] = "exit"]
    /\ UNCHANGED <<fs, partf, sphase, spost, opt_json, killed, fs0, replaced>>
    /\ UNCHANGED notFile

\* (mutant) an __exit__ that does not look at exc_type: the temp file is renamed
\* to the destination whatever it holds
ExitRollbackRenames(s) ==
    /\ ~killed
    /\ spc[s] = "exit"
    /\ sexc[s]
    /\ fs' = [fs EXCEPT ![DestPath(s)] = partf[s]]
    /\ replaced' = replaced \cup {DestPath(s)}
    /\ partf' = [partf EXCEPT ![s] = NoFile]
    /\ spc' = [spc EXCEPT ![s] = AfterException(s)]
    /\ UNCHANGED <<sphase, spost, sexc, opt_json, killed, fs0>>
    /\ UNCHANGED notFile

\* open_outfile.__exit__ with an exception: close, unlink the temp file, let the
\* exception go on
ExitRollback(s) ==
    /\ ~killed
    /\ spc[s] = "exit"
    /\ sexc[s]
    /\ partf' = [partf EXCEPT ![s] = NoFile]
    /\ spc' = [spc EXCEPT ![s] = AfterException(s)]
    /\ UNCHANGED <<fs, sphase, spost, sexc, opt_json, killed, fs0, replaced>>
    /\ UNCHANGED notFile

\* (mutant) an __exit__ that renames the temp file without the fsync
ExitChmodThenReplace(s) ==
    /\ ~killed
    /\ spc[s] = "exit"
    /\ ~sexc[s]
    /\ partf' = [partf EXCEPT ![s].mode = "0644"]
    /\ spc' = [spc EXCEPT ![s] = "replace"]
    /\ UNCHANGED <<fs, sphase, spost, sexc, opt_json, killed, fs0, replaced>>
    /\ UNCHANGED notFile

\* open_outfile.__exit__ without one: close, then fchmod 0644
ExitChmod(s) ==
    /\ ~killed
    /\ spc[s] = "exit"
    /\ ~sexc[s]
    /\ partf' = [partf EXCEPT ![s].mode = "0644"]
    /\ spc' = [spc EXCEPT ![s] = "fsync"]
    /\ UNCHANGED <<fs, sphase, spost, sexc, opt_json, killed, fs0, replaced>>
    /\ UNCHANGED notFile

\* open_outfile.__exit__: flush, fsync, close
ExitFsync(s) ==
    /\ ~killed
    /\ spc[s] = "fsync"
    /\ partf' = [partf EXCEPT ![s].synced = TRUE]
    /\ spc' = [spc EXCEPT ![s] = "replace"]
    /\ UNCHANGED <<fs, sphase, spost, sexc, opt_json, killed, fs0, replaced>>
    /\ UNCHANGED notFile

\* open_outfile.__exit__: os.replace(temp, dest), atomic; save_post() goes on with
\* the post file after the JSON document, with os.utime after the post file
ExitReplace(s) ==
    /\ ~killed
    /\ spc[s] = "replace"
    /\ fs' = [fs EXCEPT ![DestPath(s)] = partf[s]]
    /\ replaced' = replaced \cup {DestPath(s)}
    /\ partf' = [partf EXCEPT ![s] = NoFile]
    /\ IF sphase[s] = "json"
       THEN /\ sphase' = [sphase EXCEPT ![s] = "post"]
            /\ spc' = [spc EXCEPT ![s] = "init"]
       ELSE IF sphase[s] = "post"
       THEN /\ spc' = [spc EXCEPT ![s] = "utime"]
            /\ UNCHANGED sphase
       ELSE /\ sphase' = [sphase EXCEPT ![s] = "post"]
            /\ spc' = [spc EXCEPT ![s] = "start"]
    /\ UNCHANGED <<spost, sexc, opt_json, killed, fs0>>
    /\ UNCHANGED notFile

\* save_post(): os.utime on the post file, then return True; an exception of
\* os.utime is caught and save_post() returns False
SavePostUtime(s) ==
    /\ ~killed
    /\ spc[s] = "utime"
    /\ \E ok \in BOOLEAN :
          spc' = [spc EXCEPT ![s] = IF ok THEN "returned_true" ELSE "returned_false"]
    /\ UNCHANGED <<fs, partf, sphase, spost, sexc, opt_json, killed, fs0, replaced>>
    /\ UNCHANGED notFile

\* one step of save_post() in saver s
SavePost(s) ==
    \/ SavePostBegin(s)
    \/ OutfileInit(s)
    \/ BodyWritePart(s)
    \/ BodyWriteRest(s)
    \/ BodyRaises(s)
    \/ ExitRollback(s)
    \/ ExitChmod(s)
    \/ ExitFsync(s)
    \/ ExitReplace(s)
    \/ SavePostUtime(s)

\* build_index(), after the ThreadPool's wait(), when every save_post() is
\* over: if there is no .complete file, it is opened for writing under its own
\* name, which creates it empty
MarkerOpen ==
    /\ ~killed
    /\ \A s \in Savers :
          /\ spc[s] \in {"returned_true", "returned_false", "raised", "none"}
          /\ sphase[s] # "options"
    /\ fs[MarkerPath] = NoFile
    /\ fs' = [fs EXCEPT ![MarkerPath] =
                 [content |-> "empty", mode |-> "0644", synced |-> FALSE]]
    /\ UNCHANGED <<partf, spc, sphase, spost, sexc, opt_json, killed, fs0, replaced>>
    /\ UNCHANGED notFile

\* build_index(): fsync of the .complete file
MarkerFsync ==
    /\ ~killed
    /\ fs[MarkerPath].content = "empty"
    /\ ~fs[MarkerPath].synced
    /\ fs' = [fs EXCEPT ![MarkerPath].synced = TRUE]
    /\ UNCHANGED <<partf, spc, sphase, spost, sexc, opt_json, killed, fs0, replaced>>
    /\ UNCHANGED notFile

\* the process is killed: nothing runs any more
Kill ==
    /\ ~killed
    /\ killed' = TRUE
    /\ UNCHANGED <<fs, partf, spc, sphase, spost, sexc, opt_json, fs0, replaced>>
    /\ UNCHANGED notFile

NextFile ==
    \/ \E s \in Savers : SavePost(s)
    \/ Kill

\* before a target's backup: its archive was begun and completed by an earlier
\* run, only begun, or neither; one post is to be saved, by one worker
InitDurable ==
    /\ \E prior \in SUBSET {1}, begun \in SUBSET {OptionsPath, MarkerPath} :
          /\ MarkerPath \in begun => OptionsPath \in begun
          /\ fs = [f \in Files |-> IF f[2] \in prior \/ f \in begun
                                    THEN OldFile ELSE NoFile]
    /\ fs0 = fs
    /\ partf = [s \in Savers |-> NoFile]
    /\ spc = [s \in Savers |-> IF s = 1 THEN "start" ELSE "none"]
    /\ sphase = [s \in Savers |-> "post"]
    /\ spost = [s \in Savers |-> 1]
    /\ sexc = [s \in Savers |-> FALSE]
    /\ opt_json \in BOOLEAN
    /\ killed = FALSE
    /\ replaced = {}

\* every file a target's backup persists
NextDurable ==
    \/ NextFile
    \/ \E s \in Savers : WriteFirstRunOptions(s)
    \/ MarkerOpen
    \/ MarkerFsync


----------------------------------------------------------------------------
(* download_media *)

Downloaders == 1..NDownloaders
\* the media paths their URLs map to: as many as there are downloaders, so
\* that two posts may reference one URL or different ones
MediaPaths == 1..NDownloaders

\* before any download_media(): any files present, any previous archive
InitMedia ==
    /\ downloading_media = {}
    /\ media_file \in [MediaPaths -> BOOLEAN]
    /\ media_file0 = media_file
    /\ prev_media \in SUBSET MediaPaths
    /\ no_get \in BOOLEAN
    /\ mpc = [d \in Downloaders |-> "start"]
    /\ media_path \in {f \in [Downloaders -> MediaPaths] :
                         \A d \in Downloaders : d > 1 => f[d - 1] <= f[d]}
    /\ mresult = [d \in Downloaders |-> "none"]
    /\ retrieved = [d \in Downloaders |-> 0]

\* no download_media() running
IdleMedia ==
    /\ downloading_media = {}
    /\ media_file = [m \in MediaPaths |-> FALSE]
    /\ media_file0 = media_file
    /\ prev_media = {}
    /\ no_get = FALSE
    /\ mpc = [d \in Downloaders |-> "none"]
    /\ media_path = [d \in Downloaders |-> 1]
    /\ mresult = [d \in Downloaders |-> "none"]
    /\ retrieved = [d \in Downloaders |-> 0]

\* (mutant) a download_media() that does not wait for the path to be free
PathBusyIgnored(m) == FALSE

\* download_media(): the loop condition `media_path in downloading_media`
PathBusy(m) == m \in downloading_media

\* download_media(): wait while the path is being downloaded, then claim it
MediaEnter(d) ==
    /\ mpc[d] = "start"
    /\ ~PathBusy(media_path[d])
    /\ downloading_media' = downloading_media \cup {media_path[d]}
    /\ mpc' = [mpc EXCEPT ![d] = "inner"]
    /\ UNCHANGED <<media_file, prev_media, no_get, media_path, mresult, retrieved,
                   media_file0>>
    /\ UNCHANGED notMedia

\* maybe_copy_media(): True when the previous archive holds the file (copied to
\* the destination unless one is there already)
CopyResult(m) == m \in prev_media

\* _download_media_inner(), up to the retrieval: copy from the previous archive
\* or find the file; with neither, return None under no_get, else wget_retrieve
MediaInner(d) ==
    LET m == media_path[d]
        cpy_res == CopyResult(m)
        file_exists == media_file[m] \/ cpy_res
    IN  /\ mpc[d] = "inner"
        /\ media_file' = [media_file EXCEPT ![m] = file_exists]
        /\ IF ~(cpy_res \/ file_exists)
           THEN IF no_get
                THEN /\ mresult' = [mresult EXCEPT ![d] = "None"]
                     /\ mpc' = [mpc EXCEPT ![d] = "finally"]
                     /\ UNCHANGED retrieved
                ELSE /\ retrieved' = [retrieved EXCEPT ![d] = @ + 1]
                     /\ mpc' = [mpc EXCEPT ![d] = "wget_retrieve"]
                     /\ UNCHANGED mresult
           ELSE /\ mresult' = [mresult EXCEPT ![d] = "name"]
                /\ mpc' = [mpc EXCEPT ![d] = "finally"]
                /\ UNCHANGED retrieved
        /\ UNCHANGED <<downloading_media, prev_media, no_get, media_path, media_file0>>
        /\ UNCHANGED notMedia

\* _download_media_inner(): wget_retrieve ends; the file is there and the name
\* is returned, or a WGError is logged and None is returned
MediaRetrieved(d) ==
    /\ mpc[d] = "wget_retrieve"
    /\ \E ok \in BOOLEAN :
          /\ media_file' = [media_file EXCEPT ![media_path[d]] = ok]
          /\ mresult' = [mresult EXCEPT ![d] = IF ok THEN "name" ELSE "None"]
    /\ mpc' = [mpc EXCEPT ![d] = "finally"]
    /\ UNCHANGED <<downloading_media, prev_media, no_get, media_path, retrieved,
                   media_file0>>
    /\ UNCHANGED notMedia

\* download_media(), the finally clause: release the path and notify_all
MediaLeave(d) ==
    /\ mpc[d] = "finally"
    /\ downloading_media' = downloading_media \ {media_path[d]}
    /\ mpc' = [mpc EXCEPT ![d] = "returned"]
    /\ UNCHANGED <<media_file, prev_media, no_get, media_path, mresult, retrieved,
                   media_file0>>
    /\ UNCHANGED notMedia

\* one step of download_media() in downloader d
DownloadMedia(d) ==
    \/ MediaEnter(d)
    \/ MediaInner(d)
    \/ MediaRetrieved(d)
    \/ MediaLeave(d)

NextMedia == \E d \in Downloaders : DownloadMedia(d)

----------------------------------------------------------------------------
(* The suspension points of the producer and the workers *)

\* the main thread (the producer); the workers are 1..NThreads
Producer == 0
Threads == {Producer} \cup Workers

FaultSignals == {"no_internet", "enospc"}

\* the suspension points of a thread: the producer waits for the response of
\* the API thread, for queue space and, in ThreadPool.wait(), for the tasks to
\* finish; a worker waits for work and, in download_media(), for another
\* thread's download of the same media path
PointsOf(t) ==
    IF t = Producer THEN {"fetch", "queue_space", "pool_wait"}
    ELSE {"wait_for_work", "download_media"}

\* (mutant) a wait for queue space that watches the queue only
WaitSetQueueOnly(point) ==
    CASE point = "fetch" -> {"response.not_empty", "no_internet", "enospc"}
      [] point = "queue_space" -> {"queue.not_full"}
      [] point = "pool_wait" -> {"queue.all_tasks_done", "no_internet", "enospc"}
      [] point = "wait_for_work" -> {"queue.not_empty", "quit"}
      [] point = "download_media" -> {"downloading_media_cond"}
      [] OTHER -> {}

\* the conditions a thread blocked at a suspension point waits on: the tuple
\* it gives multicond.wait, or the one condition it calls wait() on
WaitSet(point) ==
    CASE point = "fetch" -> {"response.not_empty", "no_internet", "enospc"}
      [] point = "queue_space" -> {"queue.not_full", "no_internet", "enospc"}
      [] point = "pool_wait" -> {"queue.all_tasks_done", "no_internet", "enospc"}
      [] point = "wait_for_work" -> {"queue.not_empty", "quit"}
      [] point = "download_media" -> {"downloading_media_cond"}
      [] OTHER -> {}

\* the conditions that are not Fault Signals
OwnConditions ==
    {"response.not_empty", "queue.not_full", "queue.all_tasks_done",
     "queue.not_empty", "quit", "downloading_media_cond"}

\* everyone awake, no signal raised
InitWait ==
    /\ asleep = [t \in Threads |-> "none"]
    /\ fault = {}
    /\ at_raise = [woke |-> {}, left |-> {}]

\* a thread finds what it waits for missing and blocks; the producer has
\* called check() on both Fault Signals before, which returns with the signal
\* clear
Block(t, point) ==
    /\ asleep[t] = "none"
    /\ point \in PointsOf(t)
    /\ t = Producer => fault = {}
    /\ asleep' = [asleep EXCEPT ![t] = point]
    /\ UNCHANGED <<fault, at_raise>>
    /\ UNCHANGED notWait

\* the threads a notify_all on condition c wakes
Woken(c) == {t \in Threads : c \in WaitSet(asleep[t])}

\* notify_all on a condition of the queue, the pool, the API thread or
\* download_media
Notify(c) ==
    /\ c \in OwnConditions
    /\ Woken(c) # {}
    /\ asleep' = [t \in Threads |-> IF t \in Woken(c) THEN "none" ELSE asleep[t]]
    /\ UNCHANGED <<fault, at_raise>>
    /\ UNCHANGED notWait

\* signal() on a Fault Signal, by a worker (disk full, no internet) or by the
\* API thread (no internet): the signal is raised and its condition notified
Raise(sig) ==
    /\ sig \notin fault
    /\ sig = "enospc" => \E w \in Workers : asleep[w] = "none"
    /\ fault' = fault \cup {sig}
    /\ asleep' = [t \in Threads |-> IF t \in Woken(sig) THEN "none" ELSE asleep[t]]
    /\ at_raise' = [woke |-> Woken(sig),
                    left |-> {t \in Threads : asleep[t] # "none"} \ Woken(sig)]
    /\ UNCHANGED notWait

\* check() on the main thread: the condition behind a raised signal has gone,
\* and the signal is cleared
Clear(sig) ==
    /\ sig \in fault
    /\ asleep[Producer] = "none"
    /\ fault' = fault \ {sig}
    /\ UNCHANGED <<asleep, at_raise>>
    /\ UNCHANGED notWait

NextWait ==
    \/ \E t \in Threads, point \in {"fetch", "queue_space", "pool_wait",
                                     "wait_for_work", "download_media"} : Block(t, point)
    \/ \E c \in OwnConditions : Notify(c)
    \/ \E sig \in FaultSignals : Raise(sig)
    \/ \E sig \in FaultSignals : Clear(sig)

\* no thread of a component that is not running is blocked
IdleWait ==
    /\ asleep = [t \in Threads |-> "none"]
    /\ fault = {}
    /\ at_raise = [woke |-> {}, left |-> {}]

\* no Live source is at work
IdleLive ==
    /\ lpc = "idle"
    /\ try_count = 0
    /\ answers = <<>>
    /\ lresult = ""
    /\ recursions = 0
    /\ ncalls = 0

----------------------------------------------------------------------------
(* __main__, TumblrBackup.backup and ApiParser                              *)
(*                                                                         *)
(* The options the model gives a value are likes, blosxom, dirs, hostdirs, *)
(* image_names, count, skip, resume, incremental, reuse_json,              *)
(* prev_archives, ignore_diffopt and no_post_clobber; period, idents,      *)
(* request, filter, no_reblog, only_reblog and json_info stay at their     *)
(* defaults.                                                               *)

\* the post ids of a run are 1..NPosts
NPosts == 4
\* consts.MAX_POSTS, the page size of the driver loop, scaled down from 50
MAX_POSTS == 2
\* the targets requested on the command line
NBlogs == 2

PostIds == 1..NPosts
\* timestamps are coarser than ids, so that posts share one
Times == 1..(NPosts \div 2)
\* Python's None where the value is otherwise a number
None == -1

EXIT_SUCCESS == 0
EXIT_NOPOSTS == 1
EXIT_INTERRUPT == 3
EXIT_ERRORS == 4

MUST_MATCH_OPTIONS == {"likes", "blosxom", "dirs", "hostdirs", "image_names"}
PREV_MUST_MATCH_OPTIONS == {"likes", "blosxom"}
\* of the program's BACKUP_CHANGING_OPTIONS, the one the model gives a value
BACKUP_CHANGING_OPTIONS == {"count"}
SavedOptions == MUST_MATCH_OPTIONS \cup BACKUP_CHANGING_OPTIONS

\* parser.get_default(opt) of the backup-changing options
parser_default == [count |-> None]

\* the values an option may have (in a run, or in a .first_run_options file)
OptValues ==
    [likes |-> BOOLEAN, blosxom |-> BOOLEAN, dirs |-> BOOLEAN, hostdirs |-> BOOLEAN,
     image_names |-> {"o", "i"}, count |-> {None, 1}]

\* the options a run may be given, after __main__ set the implied ones:
\* --incremental, --reuse-json and --continue exclude each other, and
\* --continue and --incremental imply --no-post-clobber
ParsedOptions(Counts, Ignore) ==
    { o \in [likes : BOOLEAN, blosxom : {FALSE}, dirs : {FALSE}, hostdirs : {FALSE},
             image_names : {"o"}, count : Counts, skip : {0}, resume : BOOLEAN,
             incremental : BOOLEAN, reuse_json : BOOLEAN, prev_archives : BOOLEAN,
             ignore_diffopt : Ignore, no_post_clobber : BOOLEAN] :
        /\ Cardinality({m \in {"resume", "incremental", "reuse_json"} : o[m]}) <= 1
        /\ ~(o.prev_archives /\ o.reuse_json)
        /\ o.no_post_clobber = (o.resume \/ o.incremental) }

\* a .first_run_options file: whether it exists, the options it records and
\* their values
SavedVal(o) == [opt \in SavedOptions |-> o[opt]]
NoOptionsFile == [file |-> FALSE, present |-> {}, val |-> <<>>]
WrittenBy(o) == [file |-> TRUE, present |-> SavedOptions, val |-> SavedVal(o)]
\* the files an archive may hold next to a run given o: none, the one a run
\* with the same options wrote, or one that lacks or changes one of opts
FirstRunOptionFiles(o, opts) ==
    {NoOptionsFile, WrittenBy(o)}
    \cup { [WrittenBy(o) EXCEPT !.present = @ \ {opt}] : opt \in opts }
    \cup UNION { { [WrittenBy(o) EXCEPT !.val[opt] = v] : v \in OptValues[opt] \ {o[opt]} }
                 : opt \in opts }

\* the posts of a blog are published in id order
Timestamps == { t \in [PostIds -> Times] : \A p, q \in PostIds : p < q => t[p] <= t[q] }

SeqToSet(s) == { s[j] : j \in 1..Len(s) }
Take(s, n) == SubSeq(s, 1, IF n < Len(s) THEN n ELSE Len(s))
Drop(s, n) == SubSeq(s, (IF n < Len(s) THEN n ELSE Len(s)) + 1, Len(s))
Remove(s, j) == [h \in 1..(Len(s) - 1) |-> IF h < j THEN s[h] ELSE s[h + 1]]
MinOf(S) == CHOOSE x \in S : \A y \in S : x <= y
MaxOf(S) == CHOOSE x \in S : \A y \in S : y <= x

\* the elements of the set S as a sequence, ordered so that k is descending
\* and, among equal k, tie is ascending
RECURSIVE Ordered(_, _, _)
Ordered(S, k, tie) ==
    IF S = {} THEN <<>>
    ELSE LET x == CHOOSE x \in S : \A y \in S :
                      \/ k[y] < k[x]
                      \/ k[y] = k[x] /\ tie[x] <= tie[y]
         IN <<x>> \o Ordered(S \ {x}, k, tie)

\* Python's sorted(posts, key=..., reverse=True): descending by key, posts of
\* equal key in the order they came in
RECURSIVE sorted(_, _)
sorted(posts, key) ==
    IF posts = <<>> THEN <<>>
    ELSE LET j == CHOOSE j \in 1..Len(posts) :
                      /\ \A h \in 1..Len(posts) : key[posts[h]] <= key[posts[j]]
                      /\ \A h \in 1..(j - 1) : key[posts[h]] < key[posts[j]]
         IN <<posts[j]>> \o sorted(Remove(posts, j), key)

Ident == [p \in PostIds |-> p]

\* a response of None
NoResponse == [kind |-> "None", posts |-> <<>>, next |-> None]
\* ApiParser.prev_resps is None
NoResps == <<None>>
\* get_post_timestamp is called on the post files: to find the Resume Cursor,
\* and to find the Incremental Ceiling of a likes backup
ReadsTimestamps(o) == o.resume \/ (o.incremental /\ o.likes)

\* the state before __main__ entered its loop over the targets
InitBackupOf(nblogs, nposts, Opts, Stamps) ==
    /\ proc = "running"
    /\ blogs = [a \in 1..nblogs |-> a]
    /\ acct = 1
    /\ failed_blogs = <<>>
    /\ postfail_blogs = <<>>
    /\ total_count = 0
    /\ exit_status = None
    /\ raised = ""
    /\ orig_options \in Opts
    /\ options = orig_options
    /\ all_posts = 1..nposts
    /\ timestamp \in Stamps
    /\ \A p \in PostIds : p > nposts => timestamp[p] = MaxOf(Times)
    /\ utcoffset \in (IF ReadsTimestamps(orig_options) THEN {-1, 0, 1} ELSE {0})
    /\ source_posts \in { {}, 1..(nposts - 1) }
    /\ first_run_options = NoOptionsFile
    /\ complete_backup = FALSE
    /\ post_glob = {}
    /\ prev_resps = NoResps
    /\ prev_iter = 0
    /\ last_mode = "None"
    /\ last_offset = None
    /\ dashboard_only_blog = "None"
    /\ bpc = "main"
    /\ post_count = 0
    /\ filter_skipped = 0
    /\ oldest_tstamp = None
    /\ write_fro = FALSE
    /\ ident_max = None
    /\ before = None
    /\ start = 0
    /\ resp = NoResponse
    /\ pending = {}
    /\ enqueued = <<>>
    /\ pages = <<>>
    /\ visited = <<>>
    /\ source_calls = <<>>
    /\ post_glob0 = {}
    /\ remaining_idents = <<>>
    /\ next_ident = None
    /\ not_found = <<>>

\* the same, the posts of the blog published in id order
InitBackup(nblogs, nposts, Opts) == InitBackupOf(nblogs, nposts, Opts, Timestamps)

\* no backup runs
IdleBackup ==
    /\ proc = "exited"
    /\ blogs = <<>>
    /\ acct = 1
    /\ failed_blogs = <<>>
    /\ postfail_blogs = <<>>
    /\ total_count = 0
    /\ exit_status = None
    /\ raised = ""
    /\ orig_options = <<>>
    /\ options = <<>>
    /\ all_posts = {}
    /\ timestamp = <<>>
    /\ utcoffset = 0
    /\ source_posts = {}
    /\ first_run_options = NoOptionsFile
    /\ complete_backup = FALSE
    /\ post_glob = {}
    /\ prev_resps = NoResps
    /\ prev_iter = 0
    /\ last_mode = "None"
    /\ last_offset = None
    /\ dashboard_only_blog = "None"
    /\ bpc = "main"
    /\ post_count = 0
    /\ filter_skipped = 0
    /\ oldest_tstamp = None
    /\ write_fro = FALSE
    /\ ident_max = None
    /\ before = None
    /\ start = 0
    /\ resp = NoResponse
    /\ pending = {}
    /\ enqueued = <<>>
    /\ pages = <<>>
    /\ visited = <<>>
    /\ source_calls = <<>>
    /\ post_glob0 = {}
    /\ remaining_idents = <<>>
    /\ next_ident = None
    /\ not_found = <<>>

\* groups of variables, for the actions' UNCHANGED
worldVars == <<blogs, orig_options, all_posts, timestamp, utcoffset>>
procVars == <<proc, raised, exit_status>>
tallyVars == <<failed_blogs, postfail_blogs, total_count>>
archiveVars == <<first_run_options, complete_backup>>
parserVars == <<prev_resps, prev_iter, last_mode, last_offset, dashboard_only_blog>>
planVars == <<oldest_tstamp, write_fro, ident_max>>
loopVars == <<before, start, resp>>
histVars == <<enqueued, pages, visited, pending>>

\* an exception leaves backup() and then, not being a KeyboardInterrupt, the
\* loop of __main__ over the targets: the interpreter prints the traceback and
\* exits with status 1
Unhandled(exc) ==
    /\ proc' = "crashed"
    /\ raised' = exc
    /\ exit_status' = 1

\* backup() returns: __main__ goes on with the next target
BackupReturns ==
    /\ bpc' = "main"
    /\ acct' = acct + 1

\* __main__ calls tb.backup(account, ...): a new activation of backup(), with
\* new locals and counters set to 0, on the archive of the next target
BackupBegin ==
    /\ proc = "running"
    /\ bpc = "main"
    /\ acct <= Len(blogs)
    /\ post_count' = 0
    /\ filter_skipped' = 0
    /\ first_run_options' = NoOptionsFile
    /\ complete_backup' = FALSE
    /\ post_glob' = {}
    /\ post_glob0' = {}
    /\ prev_resps' = NoResps
    /\ prev_iter' = 0
    /\ last_mode' = "None"
    /\ last_offset' = None
    /\ dashboard_only_blog' = "None"
    /\ oldest_tstamp' = None
    /\ write_fro' = FALSE
    /\ ident_max' = None
    /\ before' = None
    /\ start' = 0
    /\ resp' = NoResponse
    /\ enqueued' = <<>>
    /\ pages' = <<>>
    /\ visited' = <<>>
    /\ pending' = {}
    /\ source_calls' = <<>>
    /\ bpc' = "plan"
    /\ UNCHANGED <<worldVars, procVars, tallyVars, acct, options, source_posts>>
    /\ UNCHANGED notBackup

\* Options.differs
differs(fro, opt) == opt \notin fro.present \/ orig_options[opt] # fro.val[opt]
\* first_run_options.get(opt)
fro_get(fro, opt) == IF opt \in fro.present THEN fro.val[opt] ELSE None

\* the must-match check that ignore_diffopt would switch off
mustmatchdiff_unless_ignored(fro) ==
    IF options.ignore_diffopt THEN {}
    ELSE { opt \in MUST_MATCH_OPTIONS : differs(fro, opt) }

mustmatchdiff(fro) == { opt \in MUST_MATCH_OPTIONS : differs(fro, opt) }
backdiff(fro) == { opt \in BACKUP_CHANGING_OPTIONS : differs(fro, opt) }
backdiff_nondef(fro) == { opt \in backdiff(fro) : orig_options[opt] # parser_default[opt] }

\* the check of the recorded options, were every continued backup let through
options_error_resume_passes(fro, complete) ==
    IF ~fro.file THEN ""
    ELSE IF mustmatchdiff(fro) # {} THEN "RuntimeError: must match"
    ELSE IF complete
    THEN IF options.resume /\ fro_get(fro, "count") = None
         THEN "RuntimeError: cannot continue complete backup" ELSE ""
    ELSE IF options.resume THEN ""
    ELSE IF backdiff(fro) = {} THEN "RuntimeError: found incomplete archive"
    ELSE IF ~options.ignore_diffopt THEN "RuntimeError: refusing different backup"
    ELSE ""

\* the error process_existing_backup raises over the archive's recorded
\* options, "" if none (period is None in the run and in the file)
options_error(fro, complete) ==
    IF ~fro.file THEN ""
    ELSE IF mustmatchdiff(fro) # {} THEN "RuntimeError: must match"
    ELSE IF complete
    THEN IF options.resume /\ fro_get(fro, "count") = None
         THEN "RuntimeError: cannot continue complete backup" ELSE ""
    ELSE IF options.resume
    THEN IF backdiff_nondef(fro) # {} /\ ~options.ignore_diffopt
         THEN "RuntimeError: different options" ELSE ""
    ELSE IF backdiff(fro) = {} THEN "RuntimeError: found incomplete archive"
    ELSE IF ~options.ignore_diffopt THEN "RuntimeError: refusing different backup"
    ELSE ""

\* the error it raises over the previous archive's recorded options
prev_options_error(pa) ==
    IF pa.file /\ { opt \in PREV_MUST_MATCH_OPTIONS : differs(pa, opt) } # {}
    THEN "RuntimeError: previous archive must match" ELSE ""

\* backdiff_nondef is not None
loads_saved(fro, complete) == fro.file /\ ~complete /\ options.resume

\* get_post_timestamp: the post file holds the UTC time of the post's date;
\* strptime reads it as a naive datetime, whose timestamp() takes it for local
\* time
get_post_timestamp(p) == timestamp[p] - utcoffset

\* the timestamp process_existing_backup returns
oldest_saved(glob) ==
    IF ~options.resume THEN None
    ELSE IF options.likes THEN MinOf({ get_post_timestamp(p) : p \in glob })
    ELSE get_post_timestamp(MinOf(glob))

\* the Incremental Ceiling backup() computes
newest_saved(glob) ==
    IF ~(options.incremental /\ glob # {}) THEN None
    ELSE IF options.likes THEN MaxOf({ get_post_timestamp(p) : p \in glob })
    ELSE MaxOf(glob)

\* process_existing_backup finds the archive's recorded options at odds with
\* the run's
PlanRejects ==
    /\ proc = "running"
    /\ bpc = "plan"
    /\ \E fro \in FirstRunOptionFiles(orig_options, SavedOptions), complete \in BOOLEAN :
         /\ options_error(fro, complete) # ""
         /\ first_run_options' = fro
         /\ complete_backup' = complete
         /\ Unhandled(options_error(fro, complete))
    /\ UNCHANGED <<worldVars, tallyVars, parserVars, planVars,
                   loopVars, histVars, acct, options, source_posts, post_glob,
                   post_glob0, bpc, post_count, filter_skipped, source_calls>>
    /\ UNCHANGED notBackup

\* process_existing_backup finds the previous archive's recorded options at
\* odds with the run's
PlanRejectsPrev ==
    /\ proc = "running"
    /\ bpc = "plan"
    /\ orig_options.prev_archives
    /\ \E fro \in FirstRunOptionFiles(orig_options, SavedOptions), complete \in BOOLEAN,
          pa \in FirstRunOptionFiles(orig_options, PREV_MUST_MATCH_OPTIONS) :
         /\ options_error(fro, complete) = ""
         /\ prev_options_error(pa) # ""
         /\ first_run_options' = fro
         /\ complete_backup' = complete
         /\ Unhandled(prev_options_error(pa))
    /\ UNCHANGED <<worldVars, tallyVars, parserVars, planVars, loopVars, histVars, acct,
                   options, source_posts, post_glob, post_glob0, bpc, post_count,
                   filter_skipped, source_calls>>
    /\ UNCHANGED notBackup

\* the archives that pass the checks of the recorded options
Accepted(fro, complete, pa) ==
    /\ options_error(fro, complete) = ""
    /\ prev_options_error(pa) = ""

\* the .first_run_options files the previous archive may hold
PrevOptionFiles ==
    IF orig_options.prev_archives
    THEN FirstRunOptionFiles(orig_options, PREV_MUST_MATCH_OPTIONS)
    ELSE {NoOptionsFile}

\* process_existing_backup is to continue a backup and finds no post file
PlanEmpty ==
    /\ proc = "running"
    /\ bpc = "plan"
    /\ options.resume
    /\ \E fro \in FirstRunOptionFiles(orig_options, SavedOptions), complete \in BOOLEAN,
          pa \in PrevOptionFiles :
         /\ Accepted(fro, complete, pa)
         /\ first_run_options' = fro
         /\ complete_backup' = complete
    /\ post_glob' = {}
    /\ post_glob0' = {}
    /\ Unhandled("RuntimeError: cannot continue empty backup")
    /\ UNCHANGED <<worldVars, tallyVars, parserVars, planVars, loopVars, histVars, acct,
                   options, source_posts, bpc, post_count, filter_skipped, source_calls>>
    /\ UNCHANGED notBackup

\* the post files an archive may hold; a run that neither continues nor
\* increments looks at no more than whether there are any
PostFiles ==
    IF options.resume \/ options.incremental THEN SUBSET all_posts
    ELSE { {}, all_posts }

\* process_existing_backup is to load a saved option the file does not
\* record: first_run_options[opt] raises KeyError
PlanKeyError ==
    /\ proc = "running"
    /\ bpc = "plan"
    /\ \E fro \in FirstRunOptionFiles(orig_options, SavedOptions), complete \in BOOLEAN,
          pa \in PrevOptionFiles,
          glob \in PostFiles :
         /\ Accepted(fro, complete, pa)
         /\ glob # {}
         /\ loads_saved(fro, complete)
         /\ (BACKUP_CHANGING_OPTIONS \ backdiff_nondef(fro)) \ fro.present # {}
         /\ first_run_options' = fro
         /\ complete_backup' = complete
         /\ post_glob' = glob
         /\ post_glob0' = glob
    /\ Unhandled("KeyError")
    /\ UNCHANGED <<worldVars, tallyVars, parserVars, planVars, loopVars, histVars, acct,
                   options, source_posts, bpc, post_count, filter_skipped, source_calls>>
    /\ UNCHANGED notBackup

\* write_fro, were any archive that is not complete and not continued taken
\* for a new one
plans_write_fro_unless_complete(fro, complete, glob) ==
    ~loads_saved(fro, complete) /\ ~complete

\* the planner's write_fro: the options are the original ones, and there is
\* no .first_run_options, no .complete and no post file
plans_write_fro(fro, complete, glob) ==
    ~loads_saved(fro, complete) /\ ~fro.file /\ ~(complete \/ glob # {})

\* process_existing_backup returns; backup() finds the Incremental Ceiling
\* and, continuing, counts the posts saved already; it makes its ApiParser
ProcessExistingBackup ==
    /\ proc = "running"
    /\ bpc = "plan"
    /\ \E fro \in FirstRunOptionFiles(orig_options, SavedOptions), complete \in BOOLEAN,
          pa \in PrevOptionFiles,
          glob \in PostFiles :
         /\ Accepted(fro, complete, pa)
         /\ options.resume => glob # {}
         /\ loads_saved(fro, complete) =>
                (BACKUP_CHANGING_OPTIONS \ backdiff_nondef(fro)) \subseteq fro.present
         /\ first_run_options' = fro
         /\ complete_backup' = complete
         /\ post_glob' = glob
         /\ post_glob0' = glob
         /\ oldest_tstamp' = oldest_saved(glob)
         /\ options' =
                [(IF loads_saved(fro, complete) /\ "count" \notin backdiff_nondef(fro)
                  THEN [options EXCEPT !.count = fro.val["count"]]
                  ELSE IF loads_saved(fro, complete) THEN options
                  ELSE [options EXCEPT !.count = orig_options.count])
                 EXCEPT !.skip = IF options.resume THEN 0 ELSE @]
         /\ write_fro' = plans_write_fro(fro, complete, glob)
         /\ ident_max' = newest_saved(glob)
         /\ post_count' = IF options.resume THEN Cardinality(glob) ELSE post_count
    /\ prev_resps' = NoResps
    /\ prev_iter' = 0
    /\ last_mode' = "None"
    /\ last_offset' = None
    /\ dashboard_only_blog' = "None"
    /\ bpc' = "read_archive"
    /\ UNCHANGED <<worldVars, procVars, tallyVars, loopVars, histVars, acct,
                   source_posts, filter_skipped, source_calls>>
    /\ UNCHANGED notBackup

\* _backup's sort_key
sort_key == [p \in PostIds |-> IF options.likes THEN timestamp[p] ELSE p]

\* the Response Source replays an archive
Replays == options.reuse_json \/ options.prev_archives

\* ApiParser.read_archive: without an archive to replay it returns True at
\* once; else it lists the saved responses, sorted descending by key (scandir
\* lists them in no particular order, here ascending by id)
ReadArchive ==
    /\ proc = "running"
    /\ bpc = "read_archive"
    /\ prev_resps' = IF Replays
                     THEN sorted(Ordered(source_posts, [p \in PostIds |-> 0], Ident), sort_key)
                     ELSE NoResps
    /\ source_calls' = Append(source_calls, "read_archive")
    /\ bpc' = "get_initial"
    /\ UNCHANGED <<worldVars, procVars, tallyVars, archiveVars, planVars, loopVars,
                   histVars, acct, options, source_posts, post_glob, post_glob0,
                   post_count, filter_skipped, prev_iter, last_mode, last_offset,
                   dashboard_only_blog>>
    /\ UNCHANGED notBackup

\* what get_initial may come to: a response, None, a response of a blog that
\* does not share its likes, or an exception (RuntimeError of the rate limit
\* from a Live source; KeyError 'liked_count' on a replayed response)
InitialOutcomes ==
    IF prev_resps # NoResps
    THEN IF prev_resps = <<>> THEN {"None"}
         ELSE IF options.likes THEN {"KeyError"} ELSE {"ok"}
    ELSE {"ok", "None", "RuntimeError: rate limit"}
         \cup (IF options.likes THEN {"no_public_likes"} ELSE {})

\* get_initial returns nothing usable: the target is recorded as failed
GetInitialFails ==
    /\ proc = "running"
    /\ bpc = "get_initial"
    /\ \E out \in InitialOutcomes \cap {"None", "no_public_likes"} : TRUE
    /\ source_calls' = Append(source_calls, "get_initial")
    /\ failed_blogs' = Append(failed_blogs, blogs[acct])
    /\ BackupReturns
    /\ UNCHANGED <<worldVars, procVars, postfail_blogs, total_count, archiveVars,
                   parserVars, planVars, loopVars, histVars, options, source_posts,
                   post_glob, post_glob0, post_count, filter_skipped>>
    /\ UNCHANGED notBackup

\* get_initial, or the reading of its response, raises
GetInitialRaises ==
    /\ proc = "running"
    /\ bpc = "get_initial"
    /\ \E out \in InitialOutcomes \cap {"KeyError", "RuntimeError: rate limit"} :
         Unhandled(out)
    /\ source_calls' = Append(source_calls, "get_initial")
    /\ UNCHANGED <<worldVars, tallyVars, archiveVars, parserVars, planVars, loopVars,
                   histVars, acct, options, source_posts, post_glob, post_glob0, bpc,
                   post_count, filter_skipped>>
    /\ UNCHANGED notBackup

\* get_initial returns the blog's information: backup() writes
\* .first_run_options if the planner said so, starts the ThreadPool and sets
\* the first 'before' bound (period is None) and the first offset, options.skip
GetInitial ==
    /\ proc = "running"
    /\ bpc = "get_initial"
    /\ "ok" \in InitialOutcomes
    /\ source_calls' = Append(source_calls, "get_initial")
    /\ dashboard_only_blog' \in
           IF prev_resps # NoResps THEN {dashboard_only_blog}
           ELSE IF options.likes THEN {"False"}
           ELSE {"False", "True"}
    /\ first_run_options' = IF write_fro THEN WrittenBy(orig_options)
                            ELSE first_run_options
    /\ before' = oldest_tstamp
    /\ start' = options.skip
    /\ bpc' = "loop"
    /\ UNCHANGED <<worldVars, procVars, tallyVars, complete_backup,
                   prev_resps, prev_iter, last_mode, last_offset, planVars, resp,
                   histVars, acct, options, source_posts, post_glob, post_glob0,
                   post_count, filter_skipped>>
    /\ UNCHANGED notBackup

\* the blog publishes a post while a Live source is being read
NewPost ==
    /\ proc = "running"
    /\ bpc = "loop"
    /\ prev_resps = NoResps
    /\ \E p \in all_posts \ source_posts :
         /\ \A q \in source_posts : q < p
         /\ \A q \in all_posts \ source_posts : p <= q
         /\ source_posts' = source_posts \cup {p}
    /\ UNCHANGED <<worldVars, procVars, tallyVars, archiveVars, parserVars, planVars,
                   loopVars, histVars, acct, options, post_glob, post_glob0, bpc,
                   post_count, filter_skipped, source_calls>>
    /\ UNCHANGED notBackup

\* apiparse on an archive replayed, in 'before' mode: dropwhile consumes the
\* responses not before the bound, islice the next count ones
RECURSIVE dropwhile(_, _)
dropwhile(pos, bound) ==
    IF pos < Len(prev_resps) /\ timestamp[prev_resps[pos + 1]] >= bound
    THEN dropwhile(pos + 1, bound)
    ELSE pos

\* an iterator made anew by every call
ReplayRestarts == IF before # None THEN dropwhile(0, before) ELSE 0

\* where the iterator over prev_resps stands before islice takes its items
ReplayFrom == IF before # None THEN dropwhile(prev_iter, before) ELSE prev_iter

\* the assertions on the mode alone
ReplayAssertsModeOnly ==
    IF before # None
    THEN last_mode \in {"None", "before"}
    ELSE /\ last_mode \in {"None", "offset"}
         /\ start = (IF last_offset = None THEN 0 ELSE last_offset + MAX_POSTS)

\* the assertions apiparse makes on an archive replayed
ReplayAsserts ==
    IF before # None
    THEN /\ last_mode \in {"None", "before"}
         /\ last_offset = None \/ before < last_offset
    ELSE /\ last_mode \in {"None", "offset"}
         /\ start = (IF last_offset = None THEN 0 ELSE last_offset + MAX_POSTS)

ReplayPosts == SubSeq(prev_resps, ReplayFrom + 1,
                      IF ReplayFrom + MAX_POSTS < Len(prev_resps)
                      THEN ReplayFrom + MAX_POSTS ELSE Len(prev_resps))

\* the posts of the blog in the order its API lists them: newest first (posts
\* of one timestamp in no particular order, here ascending by id)
ServerOrder == Ordered(source_posts, timestamp, Ident)

\* the posts a request to the API selects: those before the bound, if the
\* request carries one (the svc API of a dashboard-only blog takes none), else
\* those from the offset on
Requested ==
    IF before # None /\ dashboard_only_blog # "True"
    THEN SelectSeq(ServerOrder, LAMBDA p : timestamp[p] < before)
    ELSE Drop(ServerOrder, start)

LivePosts == Take(Requested, MAX_POSTS)

\* resp['_links']['next'] of a page of likes: the request for the likes before
\* the last one of the page, if there are more
LiveNext ==
    IF options.likes /\ Len(Requested) > MAX_POSTS
    THEN timestamp[LivePosts[Len(LivePosts)]] ELSE None

\* the responses the next fetch may bring
Responses ==
    IF prev_resps # NoResps
    THEN { [kind |-> "ok", posts |-> ReplayPosts, next |-> None] }
    ELSE { [kind |-> "ok", posts |-> LivePosts, next |-> LiveNext],
           NoResponse }

\* one round of the driver loop up to the call of _backup: the fetch through
\* the API thread; a response of None records the target as failed and ends
\* the loop, an empty page ends the loop
Fetched(call) ==
    /\ proc = "running"
    /\ prev_resps # NoResps => ReplayAsserts
    /\ \E r \in Responses :
         /\ resp' = r
         /\ pages' = IF r.kind = "ok" THEN Append(pages, r.posts) ELSE pages
         /\ failed_blogs' = IF r.kind = "None" THEN Append(failed_blogs, blogs[acct])
                            ELSE failed_blogs
         /\ bpc' = IF r.kind = "None" \/ r.posts = <<>> THEN "wait" ELSE "batch"
    /\ source_calls' = Append(source_calls, call)
    /\ IF prev_resps # NoResps
       THEN /\ prev_iter' = ReplayFrom + Len(ReplayPosts)
            /\ last_mode' = IF before # None THEN "before" ELSE "offset"
            /\ last_offset' = IF before # None THEN before ELSE start
       ELSE UNCHANGED <<prev_iter, last_mode, last_offset>>
    /\ UNCHANGED <<worldVars, procVars, postfail_blogs, total_count, archiveVars,
                   prev_resps, dashboard_only_blog, planVars, before, start, enqueued,
                   visited, pending, acct, options, source_posts, post_glob,
                   post_glob0, post_count, filter_skipped>>
    /\ UNCHANGED notBackup

\* api_thread.put, the wait for the response and api_thread.get in one step
Fetch ==
    /\ bpc = "loop"
    /\ Fetched("fetch")

\* the same in two steps.  api_thread.put hands the request to the API thread;
\* the driver then waits on the wait-set until the response is there
Outstanding == [kind |-> "request", posts |-> <<>>, next |-> None]

\* the request put as soon as the response before has been taken, with _backup
\* of that page still to run
ApiPutEarly ==
    /\ proc = "running"
    /\ bpc \in {"loop", "batch"}
    /\ bpc' = "fetch"
    /\ resp' = Outstanding
    /\ source_calls' = Append(source_calls, "put")
    /\ UNCHANGED <<worldVars, procVars, tallyVars, archiveVars, parserVars, planVars,
                   before, start, histVars, acct, options, source_posts, post_glob,
                   post_glob0, post_count, filter_skipped>>
    /\ UNCHANGED notBackup

ApiPut ==
    /\ proc = "running"
    /\ bpc = "loop"
    /\ bpc' = "fetch"
    /\ resp' = Outstanding
    /\ source_calls' = Append(source_calls, "put")
    /\ UNCHANGED <<worldVars, procVars, tallyVars, archiveVars, parserVars, planVars,
                   before, start, histVars, acct, options, source_posts, post_glob,
                   post_glob0, post_count, filter_skipped>>
    /\ UNCHANGED notBackup

\* api_thread.get(block=False) once the response queue is not empty
ApiGet ==
    /\ bpc = "fetch"
    /\ resp = Outstanding
    /\ Fetched("get")

\* the posts of a batch in the order the source gave them
unsorted_posts(posts) == posts

\* the posts of a batch in the order _backup goes through them
sorted_posts(posts) == sorted(posts, sort_key)

\* _backup's loop over the sorted posts ps, from the state acc on:
\*   post_count, the posts enqueued (enq), visited (vis) and left out because
\*   their file exists (rej), oldest_date, and how the loop ended (res):
\*   "True" or "False" as _backup returns, or the exception it raises.
\* saved are the post files the workers have written since backup() began.
RECURSIVE backup_posts(_, _, _)
backup_posts(ps, saved, acc) ==
    IF ps = <<>> THEN [acc EXCEPT !.res = "True"]
    ELSE
    LET p == Head(ps)
        date == timestamp[p]
        seen == [acc EXCEPT !.oldest_date = date, !.vis = Append(@, p)]
        added == [seen EXCEPT !.enq = Append(@, p), !.post_count = @ + 1]
    IN  IF before # None /\ date >= before
        THEN IF dashboard_only_blog = "True"
             THEN backup_posts(Tail(ps), saved, seen)
             ELSE [seen EXCEPT !.res = "RuntimeError: date newer than before"]
        ELSE IF ident_max # None /\ sort_key[p] <= ident_max
        THEN [seen EXCEPT !.res = "False"]
        ELSE IF p \in (post_glob \cup saved) /\ options.no_post_clobber
        THEN backup_posts(Tail(ps), saved, [seen EXCEPT !.rej = @ \cup {p}])
        ELSE IF options.count # None /\ options.count # 0
                /\ added.post_count >= options.count
        THEN [added EXCEPT !.res = "False"]
        ELSE backup_posts(Tail(ps), saved, added)

\* _backup(posts)
backup(posts, saved) ==
    backup_posts(sorted_posts(posts), saved,
                 [post_count |-> post_count, enq |-> <<>>, vis |-> <<>>, rej |-> {},
                  oldest_date |-> None, res |-> "True"])

\* the loop after _backup returned True, were the bound left as it is
after_batch_keeps_bound(oldest_date) ==
    IF options.likes
    THEN IF prev_resps # NoResps THEN [then |-> "KeyError", before |-> before]
         ELSE IF resp.next = None THEN [then |-> "break", before |-> before]
         ELSE [then |-> "continue", before |-> resp.next]
    ELSE [then |-> "continue", before |-> before]

\* what the loop does after _backup returned True: "break", an exception, or
\* the 'before' bound of the next fetch
after_batch(oldest_date) ==
    IF options.likes
    THEN IF prev_resps # NoResps THEN [then |-> "KeyError", before |-> before]
         ELSE IF resp.next = None THEN [then |-> "break", before |-> before]
         ELSE [then |-> "continue", before |-> resp.next]
    ELSE IF before # None /\ dashboard_only_blog # "True"
    THEN IF oldest_date > before THEN [then |-> "AssertionError", before |-> before]
         ELSE [then |-> "continue",
               before |-> IF oldest_date = before THEN oldest_date - 1 ELSE oldest_date]
    ELSE [then |-> "continue", before |-> before]

\* the rest of a round of the driver loop: _backup on the page fetched, then
\* the new 'before' bound and offset.  An exception makes backup() stop the API
\* thread, cancel the ThreadPool and raise it again.
\* saved: of the posts of this page enqueued before, those whose file a worker
\* has written by now.
BackupPosts ==
    /\ proc = "running"
    /\ bpc = "batch"
    /\ \E saved \in SUBSET (pending \cap SeqToSet(resp.posts)) :
         LET b == backup(resp.posts, saved)
             a == after_batch(b.oldest_date)
             raises == IF b.res \notin {"True", "False"} THEN b.res
                       ELSE IF b.res = "True" /\ a.then \notin {"break", "continue"}
                       THEN a.then ELSE ""
         IN  /\ post_count' = b.post_count
             /\ enqueued' = enqueued \o b.enq
             /\ visited' = Append(visited, b.vis)
             /\ post_glob' = post_glob \cup saved
             /\ IF raises # ""
                THEN /\ Unhandled(raises)
                     /\ pending' = {}
                     /\ UNCHANGED <<bpc, before, start>>
                ELSE /\ UNCHANGED procVars
                     /\ pending' = (pending \ saved) \cup SeqToSet(b.enq)
                     /\ IF b.res = "True" /\ a.then = "continue"
                        THEN /\ before' = a.before
                             /\ start' = start + MAX_POSTS
                             /\ bpc' = "loop"
                        ELSE /\ UNCHANGED <<before, start>>
                             /\ bpc' = "wait"
    /\ UNCHANGED <<worldVars, tallyVars, archiveVars, parserVars, planVars, resp, pages,
                   acct, options, source_posts, post_glob0, filter_skipped,
                   source_calls>>
    /\ UNCHANGED notBackup

\* (mutant) a build_index that writes .complete for a failed target too
FinishMarksFailedTarget(pool_errors, count) ==
    /\ postfail_blogs' = IF pool_errors THEN Append(postfail_blogs, blogs[acct])
                          ELSE postfail_blogs
    /\ pending' = {}
    /\ complete_backup' = (complete_backup \/ count > 0)
    /\ post_count' = count
    /\ total_count' = total_count + count
    /\ BackupReturns
    /\ UNCHANGED <<worldVars, procVars, failed_blogs, first_run_options,
                   parserVars, planVars, loopVars, enqueued, pages,
                   visited, options, source_posts, post_glob, post_glob0,
                   filter_skipped, source_calls>>

\* backup() after backup_pool.wait(): it records the target in postfail_blogs
\* if a Work Item failed (pool_errors), builds the index if posts were counted
\* (which marks the archive complete unless the target failed), and adds the
\* target's posts (count) to the total
Finish(pool_errors, count) ==
    /\ postfail_blogs' = IF pool_errors THEN Append(postfail_blogs, blogs[acct])
                          ELSE postfail_blogs
    /\ pending' = {}
    /\ complete_backup' = (complete_backup
                           \/ (count > 0 /\ blogs[acct] \notin SeqToSet(failed_blogs)))
    /\ post_count' = count
    /\ total_count' = total_count + count
    /\ BackupReturns
    /\ UNCHANGED <<worldVars, procVars, failed_blogs, first_run_options,
                   parserVars, planVars, loopVars, enqueued, pages,
                   visited, options, source_posts, post_glob, post_glob0,
                   filter_skipped, source_calls>>

\* after the loop: backup() stops the API thread and waits for the ThreadPool,
\* whose workers may have set its errors flag if anything was enqueued
WaitPool ==
    /\ proc = "running"
    /\ bpc = "wait"
    /\ \E pool_errors \in (IF enqueued = <<>> THEN {FALSE} ELSE BOOLEAN) :
         Finish(pool_errors, post_count)
    /\ UNCHANGED notBackup

\* the same with the ThreadPool at work: backup() is the pool's producer, which
\* counts a post with every add_work; once wait() has returned it reads the
\* pool's errors flag
PoolFinish ==
    /\ proc = "running"
    /\ bpc = "pool"
    /\ ppc = "waited"
    /\ Finish(errors, nadded)
    /\ UNCHANGED notBackup

\* the same pass, the fetch of a page coming back None: backup() records the
\* target as failed, leaves the loop, stops the API thread and calls
\* backup_pool.wait()
FetchFailsInPass ==
    /\ proc = "running"
    /\ bpc = "pool"
    /\ ppc = "produce"
    /\ failed_blogs' = Append(failed_blogs, blogs[acct])
    /\ quit_flag' = TRUE
    /\ ppc' = "wait"
    /\ UNCHANGED <<queue, unfinished_tasks, abort_flag, errors, threads, work,
                   enospc_flag, nadded, poolHistory>>
    /\ UNCHANGED <<worldVars, procVars, postfail_blogs, total_count, archiveVars,
                   parserVars, planVars, loopVars, histVars, acct, options,
                   source_posts, post_glob, post_glob0, bpc, post_count,
                   filter_skipped, source_calls>>
    /\ UNCHANGED <<fileVars, mediaVars, waitVars, identVars, liveVars, listVars, checkVars>>

\* TumblrBackup.exit_code (json_info is not set)
exit_code ==
    IF failed_blogs # <<>> \/ postfail_blogs # <<>> THEN EXIT_ERRORS
    ELSE IF total_count = 0 THEN EXIT_NOPOSTS
    ELSE EXIT_SUCCESS

\* the loop over the targets is through: __main__ exits with exit_code()
MainExit ==
    /\ proc = "running"
    /\ bpc = "main"
    /\ acct > Len(blogs)
    /\ proc' = "exited"
    /\ exit_status' = exit_code
    /\ UNCHANGED <<worldVars, raised, tallyVars, archiveVars, parserVars, planVars,
                   loopVars, histVars, acct, options, source_posts, post_glob,
                   post_glob0, bpc, post_count, filter_skipped, source_calls>>
    /\ UNCHANGED notBackup

\* what an interrupt leaves of the run: backup() cancels its ThreadPool, if it
\* has one, and raises the exception again; nothing else is changed
Interrupted(exc, status) ==
    /\ proc' = "exited"
    /\ raised' = exc
    /\ exit_status' = status
    /\ pending' = {}
    /\ UNCHANGED <<worldVars, tallyVars, archiveVars, parserVars, planVars, loopVars,
                   enqueued, pages, visited, acct, options, source_posts, post_glob,
                   post_glob0, bpc, post_count, filter_skipped, source_calls>>
    /\ UNCHANGED notBackup

\* a keyboard interrupt while a target is backed up: __main__ catches
\* KeyboardInterrupt and exits with EXIT_INTERRUPT
KeyboardInterrupt ==
    /\ proc = "running"
    /\ acct <= Len(blogs)
    /\ Interrupted("KeyboardInterrupt", EXIT_INTERRUPT)

\* SIGTERM or SIGHUP while a target is backed up: handle_term_signal calls
\* sys.exit(1), and the SystemExit ends the process with status 1
handle_term_signal ==
    /\ proc = "running"
    /\ acct <= Len(blogs)
    /\ Interrupted("SystemExit", 1)

\* TumblrBackup.backup
Backup ==
    \/ BackupBegin
    \/ PlanRejects
    \/ PlanRejectsPrev
    \/ PlanEmpty
    \/ PlanKeyError
    \/ ProcessExistingBackup
    \/ ReadArchive
    \/ GetInitialFails
    \/ GetInitialRaises
    \/ GetInitial
    \/ Fetch
    \/ BackupPosts
    \/ WaitPool

NextBackup == Backup \/ NewPost \/ MainExit

\* backup() with the fetch in its two steps
NextAsync ==
    \/ BackupBegin
    \/ PlanRejects
    \/ PlanRejectsPrev
    \/ PlanEmpty
    \/ PlanKeyError
    \/ ProcessExistingBackup
    \/ ReadArchive
    \/ GetInitialFails
    \/ GetInitialRaises
    \/ GetInitial
    \/ ApiPut
    \/ ApiGet
    \/ BackupPosts
    \/ WaitPool
    \/ NewPost
    \/ MainExit

----------------------------------------------------------------------------
(* backup() in explicit-id mode (--id-file: options.idents is a list)       *)

MaxIdents == 2

\* the id lists an id file may give
IdLists == UNION { [1..n -> PostIds] : n \in 1..MaxIdents }

\* the options of a run in explicit-id mode: the ids, and whether the saved
\* responses of the archive are replayed (--id-file is refused with likes)
IdentOptions ==
    [idents : IdLists, reuse_json : BOOLEAN, prev_archives : {FALSE}, likes : {FALSE}]

\* what no step of backup() changes in explicit-id mode
identsFrame == <<worldVars, procVars, postfail_blogs, total_count, archiveVars,
                 planVars, source_posts, post_glob, post_glob0, last_offset,
                 filter_skipped, before, pages, visited, source_calls>>

\* backup() has planned the run on an archive directory without posts
InitIdents ==
    /\ proc = "running"
    /\ blogs = <<1>>
    /\ acct = 1
    /\ failed_blogs = <<>>
    /\ postfail_blogs = <<>>
    /\ total_count = 0
    /\ exit_status = None
    /\ raised = ""
    /\ orig_options \in IdentOptions
    /\ options = orig_options
    /\ all_posts = PostIds
    /\ timestamp = [p \in PostIds |-> MaxOf(Times)]
    /\ utcoffset = 0
    /\ source_posts \in { {}, 1..(NPosts - 1) }
    /\ first_run_options = NoOptionsFile
    /\ complete_backup = FALSE
    /\ post_glob = {}
    /\ prev_resps = NoResps
    /\ prev_iter = 0
    /\ last_mode = "None"
    /\ last_offset = None
    /\ dashboard_only_blog = "None"
    /\ bpc = "normalize"
    /\ post_count = 0
    /\ filter_skipped = 0
    /\ oldest_tstamp = None
    /\ write_fro = FALSE
    /\ ident_max = None
    /\ before = None
    /\ start = 0
    /\ resp = NoResponse
    /\ pending = {}
    /\ enqueued = <<>>
    /\ pages = <<>>
    /\ visited = <<>>
    /\ source_calls = <<>>
    /\ post_glob0 = {}
    /\ remaining_idents = <<>>
    /\ next_ident = None
    /\ not_found = <<>>

\* options.idents.sort(reverse=True)
NormalizeIdents ==
    /\ proc = "running"
    /\ bpc = "normalize"
    /\ options' = [options EXCEPT !.idents = sorted(@, Ident)]
    /\ bpc' = "read_archive"
    /\ UNCHANGED <<identsFrame, acct, failed_blogs, prev_resps, prev_iter, last_mode,
                   dashboard_only_blog, post_count, start, resp, pending, enqueued,
                   identVars>>
    /\ UNCHANGED notDriver

\* the requested ids the archive replayed has no saved response for, in the
\* order read_archive looks them up
MissingIdents == SelectSeq(options.idents, LAMBDA id : id \notin source_posts)

\* ApiParser.read_archive in explicit-id mode: it looks up the saved response
\* of every requested id, logs the first it does not find and returns False,
\* on which backup() records the target as failed and returns
ReadArchiveIdents ==
    /\ proc = "running"
    /\ bpc = "read_archive"
    /\ IF Replays /\ MissingIdents # <<>>
       THEN /\ not_found' = Append(not_found, Head(MissingIdents))
            /\ failed_blogs' = Append(failed_blogs, blogs[acct])
            /\ BackupReturns
            /\ UNCHANGED prev_resps
       ELSE /\ prev_resps' = IF Replays THEN sorted(options.idents, sort_key)
                             ELSE NoResps
            /\ bpc' = "get_initial"
            /\ UNCHANGED <<not_found, failed_blogs, acct>>
    /\ UNCHANGED <<identsFrame, options, prev_iter, last_mode, dashboard_only_blog,
                   post_count, start, resp, pending, enqueued, remaining_idents,
                   next_ident>>
    /\ UNCHANGED notDriver

\* get_initial, then remaining_idents = options.idents.copy(): a source
\* replayed answers with its first saved response, a Live source may fail, on
\* which the target is recorded as failed
GetInitialIdents ==
    /\ proc = "running"
    /\ bpc = "get_initial"
    /\ \E ok \in (IF prev_resps # NoResps THEN {TRUE} ELSE BOOLEAN) :
         IF ok
         THEN /\ dashboard_only_blog' \in
                     (IF prev_resps # NoResps THEN {dashboard_only_blog}
                      ELSE {"False", "True"})
              /\ remaining_idents' = options.idents
              /\ bpc' = "loop"
              /\ UNCHANGED <<failed_blogs, acct>>
         ELSE /\ failed_blogs' = Append(failed_blogs, blogs[acct])
              /\ BackupReturns
              /\ UNCHANGED <<dashboard_only_blog, remaining_idents>>
    /\ UNCHANGED <<identsFrame, options, prev_resps, prev_iter, last_mode,
                   post_count, start, resp, pending, enqueued, next_ident, not_found>>
    /\ UNCHANGED notDriver

\* apiparse(count, start, before, ident) with an ident. On an archive replayed
\* it asserts the mode and hands out the next saved response, None when there
\* is none left. A Live source is asked for the id: the answer is the post,
\* another post of the blog, no post, or None (an HTTP error)
IdentResponses(ident) ==
    IF prev_resps # NoResps
    THEN IF prev_iter < Len(prev_resps)
         THEN { [kind |-> "ok", posts |-> <<prev_resps[prev_iter + 1]>>, next |-> None] }
         ELSE { NoResponse }
    ELSE { [kind |-> "ok", posts |-> <<q>>, next |-> None] : q \in source_posts }
         \cup { [kind |-> "ok", posts |-> <<>>, next |-> None], NoResponse }

\* one round of the loop up to the call of _backup: the next requested id is
\* popped (none left ends the loop) and fetched; a response of None records
\* the target as failed and ends the loop, an empty page ends the loop
FetchIdent ==
    /\ proc = "running"
    /\ bpc = "loop"
    /\ IF remaining_idents = <<>>
       THEN /\ bpc' = "wait"
            /\ UNCHANGED <<remaining_idents, next_ident, prev_iter, last_mode,
                           resp, failed_blogs>>
       ELSE /\ next_ident' = Head(remaining_idents)
            /\ remaining_idents' = Tail(remaining_idents)
            /\ prev_resps # NoResps => last_mode \in {"None", "ident"}
            /\ last_mode' = IF prev_resps # NoResps THEN "ident" ELSE last_mode
            /\ \E r \in IdentResponses(Head(remaining_idents)) :
                 /\ resp' = r
                 /\ prev_iter' = IF prev_resps # NoResps /\ r.kind = "ok"
                                  THEN prev_iter + 1 ELSE prev_iter
                 /\ failed_blogs' = IF r.kind = "None"
                                     THEN Append(failed_blogs, blogs[acct])
                                     ELSE failed_blogs
                 /\ bpc' = IF r.kind = "None" \/ r.posts = <<>> THEN "wait"
                            ELSE "backup"
    /\ UNCHANGED <<identsFrame, acct, options, prev_resps, dashboard_only_blog,
                   post_count, start, pending, enqueued, not_found>>
    /\ UNCHANGED notDriver

\* _backup(posts) on the page of one post, and the end of the round: a post
\* whose id is not the requested one is logged as not found and _backup
\* returns False, which ends the loop; else the post is enqueued and counted
\* (no filter is set and the post is not in the archive yet)
BackupIdent ==
    /\ proc = "running"
    /\ bpc = "backup"
    /\ LET p == resp.posts[1] IN
         IF p # next_ident
         THEN /\ not_found' = Append(not_found, next_ident)
              /\ bpc' = "wait"
              /\ UNCHANGED <<enqueued, pending, post_count, start>>
         ELSE /\ enqueued' = Append(enqueued, p)
              /\ pending' = pending \cup {p}
              /\ post_count' = post_count + 1
              /\ start' = start + 1
              /\ bpc' = "loop"
              /\ UNCHANGED not_found
    /\ UNCHANGED <<identsFrame, acct, failed_blogs, options, prev_resps, prev_iter,
                   last_mode, dashboard_only_blog, resp, remaining_idents, next_ident>>
    /\ UNCHANGED notDriver

NextIdents ==
    \/ NormalizeIdents
    \/ ReadArchiveIdents
    \/ GetInitialIdents
    \/ FetchIdent
    \/ BackupIdent
    \/ WaitPool

----------------------------------------------------------------------------
(* ApiParser.apiparse on an archive replayed, called by any caller          *)

MaxCalls == 3

\* the arguments a caller may pass for start, before and ident
StartArgs == {0, MAX_POSTS}
BeforeArgs == {None} \cup Times
IdentArgs == {None, 1}

\* the mode of the call apiparse(MAX_POSTS, start, before, next_ident)
CallMode ==
    IF next_ident # None THEN "ident"
    ELSE IF before # None THEN "before"
    ELSE "offset"

\* the assertions of the call
ApiparseAsserts ==
    IF next_ident # None THEN last_mode \in {"None", "ident"}
    ELSE ReplayAsserts

\* an ApiParser whose read_archive has listed the saved responses of the
\* posts 1..n, before its first call; the caller holds the arguments of the
\* call it is about to make
InitReplay ==
    /\ proc = "running"
    /\ blogs = <<1>>
    /\ acct = 1
    /\ failed_blogs = <<>>
    /\ postfail_blogs = <<>>
    /\ total_count = 0
    /\ exit_status = None
    /\ raised = ""
    /\ orig_options = [likes |-> FALSE, reuse_json |-> TRUE, prev_archives |-> FALSE]
    /\ options = orig_options
    /\ all_posts = PostIds
    /\ timestamp = [p \in PostIds |-> IF 2 * p <= NPosts THEN MinOf(Times) ELSE MaxOf(Times)]
    /\ utcoffset = 0
    /\ source_posts \in { 1..n : n \in 0..NPosts }
    /\ first_run_options = NoOptionsFile
    /\ complete_backup = FALSE
    /\ post_glob = {}
    /\ prev_resps = sorted(Ordered(source_posts, [p \in PostIds |-> 0], Ident), sort_key)
    /\ prev_iter = 0
    /\ last_mode = "None"
    /\ last_offset = None
    /\ dashboard_only_blog = "None"
    /\ bpc = "loop"
    /\ post_count = 0
    /\ filter_skipped = 0
    /\ oldest_tstamp = None
    /\ write_fro = FALSE
    /\ ident_max = None
    /\ before \in BeforeArgs
    /\ start \in StartArgs
    /\ resp = NoResponse
    /\ pending = {}
    /\ enqueued = <<>>
    /\ pages = <<>>
    /\ visited = <<>>
    /\ source_calls = <<>>
    /\ post_glob0 = {}
    /\ remaining_idents = <<>>
    /\ next_ident \in IdentArgs
    /\ not_found = <<>>

\* what a call brought: a batch, None, or an AssertionError
Outcome(mode, bound, outcome) == [mode |-> mode, before |-> bound, outcome |-> outcome]

\* apiparse(MAX_POSTS, start, before, next_ident) on the archive replayed: a
\* failed assertion raises AssertionError before anything is changed; with an
\* ident the next saved response is handed out, None if there is none left;
\* else the next MAX_POSTS responses, after those not before the bound. The
\* caller then sets the arguments of its next call
ApiparseReplay ==
    /\ proc = "running"
    /\ bpc = "loop"
    /\ prev_resps # NoResps
    /\ Len(source_calls) < MaxCalls
    /\ IF ~ApiparseAsserts
       THEN /\ raised' = "AssertionError"
            /\ source_calls' = Append(source_calls,
                                      Outcome(CallMode, before, "AssertionError"))
            /\ UNCHANGED <<prev_iter, last_mode, last_offset, resp>>
       ELSE /\ raised' = ""
            /\ last_mode' = CallMode
            /\ IF next_ident # None
               THEN /\ resp' = IF prev_iter < Len(prev_resps)
                               THEN [kind |-> "ok",
                                     posts |-> <<prev_resps[prev_iter + 1]>>,
                                     next |-> None]
                               ELSE NoResponse
                    /\ prev_iter' = IF prev_iter < Len(prev_resps) THEN prev_iter + 1
                                     ELSE prev_iter
                    /\ UNCHANGED last_offset
               ELSE /\ resp' = [kind |-> "ok", posts |-> ReplayPosts, next |-> None]
                    /\ prev_iter' = ReplayFrom + Len(ReplayPosts)
                    /\ last_offset' = IF before # None THEN before ELSE start
            /\ source_calls' = Append(source_calls,
                                      Outcome(CallMode, before,
                                              IF resp'.kind = "ok" THEN "batch" ELSE "None"))
    /\ before' \in BeforeArgs
    /\ start' \in StartArgs
    /\ next_ident' \in IdentArgs
    /\ UNCHANGED <<worldVars, proc, exit_status, tallyVars, archiveVars, planVars,
                   prev_resps, dashboard_only_blog, enqueued, pages, visited, pending,
                   acct, options, source_posts, post_glob, post_glob0, bpc,
                   post_count, filter_skipped, remaining_idents, not_found>>
    /\ UNCHANGED notDriver

----------------------------------------------------------------------------
(* ApiParser.apiparse on a Live source: _get_resp, the rate limit and the   *)
(* detection of a dashboard-only blog                                       *)

TRY_LIMIT == 2

\* an answer of the server: the status, whether the body is a JSON document,
\* the code of its one error, the X-Ratelimit-Perday-Remaining header and the
\* X-Ratelimit-Perhour-Reset header ("absent", "junk" or a "number" of seconds)
Answer(status, doc, code, remaining, kind, reset) ==
    [status |-> status, doc |-> doc, code |-> code, remaining |-> remaining,
     kind |-> kind, reset |-> reset]

\* the answers a request may get
ServerAnswers ==
    { Answer(200, TRUE, 0, "1", "absent", 0),
      Answer(200, FALSE, 0, "1", "absent", 0),
      Answer(404, TRUE, 4012, "1", "absent", 0),
      Answer(404, TRUE, 0, "1", "absent", 0),
      Answer(500, FALSE, 0, "1", "absent", 0) }
    \cup { Answer(429, TRUE, 0, remaining, kind, 0) :
             remaining \in {"0", "1"}, kind \in {"absent", "junk"} }
    \cup { Answer(429, TRUE, 0, remaining, "number", reset) :
             remaining \in {"0", "1"}, reset \in {-5, 0, 3600, 3601} }

\* _ratelimit_sleep, were an hourly wait slept for exactly the reset duration
ratelimit_sleep_to_reset(a) ==
    IF a.remaining = "0" THEN [ret |-> "RuntimeError: rate limit", sleep |-> 0]
    ELSE IF a.kind # "number" THEN [ret |-> "False", sleep |-> 0]
    ELSE IF a.reset < 0 THEN [ret |-> "True", sleep |-> 0]
    ELSE IF a.reset > 3600 THEN [ret |-> "RuntimeError: refusing to sleep", sleep |-> 0]
    ELSE [ret |-> "True", sleep |-> a.reset]

\* _ratelimit_sleep(headers): what it returns or raises, and the seconds it
\* sleeps before it returns
ratelimit_sleep(a) ==
    IF a.remaining = "0" THEN [ret |-> "RuntimeError: rate limit", sleep |-> 0]
    ELSE IF a.kind # "number" THEN [ret |-> "False", sleep |-> 0]
    ELSE IF a.reset < 0 THEN [ret |-> "True", sleep |-> 0]
    ELSE IF a.reset > 3600 THEN [ret |-> "RuntimeError: refusing to sleep", sleep |-> 0]
    ELSE [ret |-> "True", sleep |-> a.reset + 1]

\* an ApiParser of a Live source before its first call
InitLive ==
    /\ proc = "running"
    /\ blogs = <<1>>
    /\ acct = 1
    /\ failed_blogs = <<>>
    /\ postfail_blogs = <<>>
    /\ total_count = 0
    /\ exit_status = None
    /\ raised = ""
    /\ orig_options \in [likes : BOOLEAN, reuse_json : {FALSE}, prev_archives : {FALSE}]
    /\ options = orig_options
    /\ all_posts = {}
    /\ timestamp = <<>>
    /\ utcoffset = 0
    /\ source_posts = {}
    /\ first_run_options = NoOptionsFile
    /\ complete_backup = FALSE
    /\ post_glob = {}
    /\ prev_resps = NoResps
    /\ prev_iter = 0
    /\ last_mode = "None"
    /\ last_offset = None
    /\ dashboard_only_blog = "None"
    /\ bpc = "loop"
    /\ post_count = 0
    /\ filter_skipped = 0
    /\ oldest_tstamp = None
    /\ write_fro = FALSE
    /\ ident_max = None
    /\ before = None
    /\ start = 0
    /\ resp = NoResponse
    /\ pending = {}
    /\ enqueued = <<>>
    /\ pages = <<>>
    /\ visited = <<>>
    /\ source_calls = <<>>
    /\ post_glob0 = {}
    /\ remaining_idents = <<>>
    /\ next_ident = None
    /\ not_found = <<>>
    /\ IdleLive

\* what no step of a Live source changes
liveFrame == <<worldVars, procVars, tallyVars, archiveVars, planVars, loopVars,
               histVars, prev_resps, prev_iter, last_mode, last_offset, acct, options,
               source_posts, post_glob, post_glob0, bpc, post_count, filter_skipped,
               source_calls>>

\* the caller calls apiparse(): it makes its request and enters _get_resp
ApiparseLive ==
    /\ lpc = "idle"
    /\ prev_resps = NoResps
    /\ bpc = "loop"
    /\ ncalls < MaxCalls
    /\ ncalls' = ncalls + 1
    /\ lpc' = "get_resp"
    /\ try_count' = 0
    /\ answers' = <<>>
    /\ lresult' = ""
    /\ UNCHANGED <<liveFrame, dashboard_only_blog, recursions>>
    /\ UNCHANGED notLive

\* the answer a, with the number of the attempt it came to and what
\* _get_resp did on it: "raise", "sleep" (and retry), "retry" or "return"
Answered(a, n, did, slept) ==
    [n |-> n, status |-> a.status, remaining |-> a.remaining, kind |-> a.kind,
     reset |-> a.reset, did |-> did, slept |-> slept]

\* the detection, were it made on every 404 with the error 4012
DetectsOnEvery4012(a) ==
    /\ a.status = 404
    /\ a.doc
    /\ ~options.likes
    /\ a.code = 4012

\* apiparse() has the status 404 with the one error 4012 of a blog it knows
\* nothing of yet: it takes the blog for dashboard-only
DetectsDashboardOnly(a) ==
    /\ a.status = 404
    /\ dashboard_only_blog = "None"
    /\ a.doc
    /\ ~options.likes
    /\ a.code = 4012

\* one round of _get_resp's loop, and what apiparse() does when _get_resp
\* returns: the server answers the request; on a 429 before TRY_LIMIT
\* answers _ratelimit_sleep decides, and its True makes the next round; any
\* other answer is returned. apiparse() then calls itself once for the svc
\* API if it detects a dashboard-only blog, returns None on another status
\* that is not 2xx or on a body that is no JSON, and else takes a blog not
\* known as dashboard-only for public and returns the response
Attempt ==
    /\ lpc = "get_resp"
    /\ \E a \in ServerAnswers :
         LET n == try_count + 1
             limited == a.status = 429 /\ n < TRY_LIMIT
             rl == ratelimit_sleep(a)
         IN  IF limited /\ rl.ret \notin {"True", "False"}
             THEN /\ answers' = Append(answers, Answered(a, n, "raise", 0))
                  /\ try_count' = n
                  /\ lresult' = rl.ret
                  /\ lpc' = "raised"
                  /\ UNCHANGED <<dashboard_only_blog, recursions>>
             ELSE IF limited /\ rl.ret = "True"
             THEN /\ answers' = Append(answers,
                                       Answered(a, n, IF rl.sleep > 0 THEN "sleep"
                                                      ELSE "retry", rl.sleep))
                  /\ try_count' = n
                  /\ UNCHANGED <<lresult, lpc, dashboard_only_blog, recursions>>
             ELSE /\ answers' = Append(answers, Answered(a, n, "return", 0))
                  /\ IF DetectsDashboardOnly(a)
                     THEN /\ dashboard_only_blog' = "True"
                          /\ recursions' = recursions + 1
                          /\ try_count' = 0
                          /\ UNCHANGED <<lresult, lpc>>
                     ELSE /\ try_count' = n
                          /\ lpc' = "idle"
                          /\ lresult' = IF a.status = 200 /\ a.doc THEN "response"
                                        ELSE "None"
                          /\ dashboard_only_blog' =
                                 IF a.status = 200 /\ a.doc /\ dashboard_only_blog = "None"
                                 THEN "False" ELSE dashboard_only_blog
                          /\ UNCHANGED recursions
    /\ UNCHANGED <<liveFrame, ncalls>>
    /\ UNCHANGED notLive

NextLive == ApiparseLive \/ Attempt

----------------------------------------------------------------------------
(* The media list: backup() opens media.json through open_text, and         *)
(* record_media appends to it                                               *)

\* the runs of a backup with --media-list on one target
MaxRuns == 2
\* the posts that have media
ListPosts == 1..(MAX_POSTS + 1)

\* no media list is kept
IdleList ==
    /\ media_json = <<>>
    /\ media_list_file = [open |-> FALSE, lines |-> <<>>]
    /\ mlf_seen = {}
    /\ mlf_earlier = {}
    /\ mlf_runs = 0

\* a target that has no media.json yet
InitList == IdleList

\* open_outfile.__init__: NamedTemporaryFile makes a new, empty file next to the
\* destination, and the file object handed out is that file opened by name
\* with the mode asked for; the destination is not read
open_outfile(dest) == <<>>

\* backup() with options.media_list: open_text('media.json', mode='r+'), then
\* mlf_seen is cleared and filled with the post ids of the lines read from the
\* file object
OpenMediaList ==
    /\ ~media_list_file.open
    /\ mlf_runs < MaxRuns
    /\ mlf_runs' = mlf_runs + 1
    /\ media_list_file' = [open |-> TRUE, lines |-> open_outfile(media_json)]
    /\ mlf_seen' = SeqToSet(media_list_file'.lines)
    /\ UNCHANGED <<media_json, mlf_earlier>>
    /\ UNCHANGED notList

\* record_media(ident, urls), called by the workers; the whole of it runs
\* under mlf_lock, so the calls take their turns
record_media(w, ident) ==
    /\ media_list_file.open
    /\ ident \notin mlf_seen
    /\ media_list_file' = [media_list_file EXCEPT !.lines = Append(@, ident)]
    /\ mlf_seen' = mlf_seen \cup {ident}
    /\ UNCHANGED <<media_json, mlf_earlier, mlf_runs>>
    /\ UNCHANGED notList

\* open_outfile.__exit__ without an exception: the file written is moved to
\* the destination by os.replace
CloseMediaList ==
    /\ media_list_file.open
    /\ media_list_file' = [media_list_file EXCEPT !.open = FALSE]
    /\ media_json' = media_list_file.lines
    /\ mlf_earlier' = mlf_earlier \cup SeqToSet(media_json')
    /\ UNCHANGED <<mlf_seen, mlf_runs>>
    /\ UNCHANGED notList

\* open_outfile.__exit__ with an exception: the file written is unlinked and
\* the destination is left as it was
RollbackMediaList ==
    /\ media_list_file.open
    /\ media_list_file' = [media_list_file EXCEPT !.open = FALSE]
    /\ UNCHANGED <<media_json, mlf_seen, mlf_earlier, mlf_runs>>
    /\ UNCHANGED notList

NextList ==
    \/ OpenMediaList
    \/ \E w \in Workers, ident \in ListPosts : record_media(w, ident)
    \/ CloseMediaList
    \/ RollbackMediaList

----------------------------------------------------------------------------
(* _backup's loop, post by post: the checks of the loop body in their order *)
(* (tumblr_backup.py).  The posts of the page are any posts, by descending  *)
(* id; the keys are the post ids (no likes).                                *)

\* no page is being worked on post by post
NoPost == [ident |-> 0, date |-> 0, requested |-> FALSE, reblog |-> FALSE,
           matches |-> FALSE, exists |-> FALSE]
IdleChecks ==
    /\ filters = <<>>
    /\ cpost = NoPost
    /\ decision = ""
    /\ cres = ""

\* a post of the page: its id and date, whether request_sets has its type and
\* tags, whether it is a reblog, whether the jq filter matches it, and whether
\* its file exists
PagePosts ==
    [ident : 1..MAX_POSTS, date : Times, requested : BOOLEAN, reblog : BOOLEAN,
     matches : BOOLEAN, exists : BOOLEAN]

\* options.period[0] (or None), whether request_sets and jq_filter are set,
\* and the reblog options, which exclude each other
Filters ==
    { f \in [period : {None, MaxOf(Times)}, request_sets : BOOLEAN,
             no_reblog : BOOLEAN, only_reblog : BOOLEAN, jq_filter : BOOLEAN] :
        ~(f.no_reblog /\ f.only_reblog) }

\* _backup is called on a page, in any state of the closure it reads: the
\* options, 'before', the Incremental Ceiling of an incremental run, the id
\* asked for, and the posts counted so far (those on disk, when continuing)
InitChecks ==
    /\ proc = "running"
    /\ blogs = <<1>>
    /\ acct = 1
    /\ failed_blogs = <<>>
    /\ postfail_blogs = <<>>
    /\ total_count = 0
    /\ exit_status = None
    /\ raised = ""
    /\ orig_options \in { o \in ParsedOptions({None, 1}, {FALSE}) :
                            ~o.likes /\ ~o.reuse_json /\ ~o.prev_archives }
    /\ options = orig_options
    /\ all_posts = PostIds
    /\ timestamp \in {[p \in PostIds |-> MaxOf(Times)]}
    /\ utcoffset = 0
    /\ source_posts = PostIds
    /\ first_run_options = NoOptionsFile
    /\ complete_backup = FALSE
    /\ post_glob = {}
    /\ prev_resps = NoResps
    /\ prev_iter = 0
    /\ last_mode = "None"
    /\ last_offset = None
    /\ before \in {None, MaxOf(Times)}
    /\ dashboard_only_blog \in (IF before # None THEN {"False", "True"} ELSE {"False"})
    /\ bpc = "batch"
    /\ post_count \in (IF options.resume THEN {0, 1} ELSE {0})
    /\ filter_skipped = 0
    /\ oldest_tstamp = None
    /\ write_fro = FALSE
    /\ ident_max \in (IF options.incremental THEN {None, 1} ELSE {None})
    /\ start = 0
    /\ resp = NoResponse
    /\ pending = {}
    /\ enqueued = <<>>
    /\ pages = <<>>
    /\ visited = << <<>> >>
    /\ source_calls = <<>>
    /\ post_glob0 = {}
    /\ remaining_idents = <<>>
    /\ next_ident \in {None, MAX_POSTS}
    /\ not_found = <<>>
    /\ filters \in Filters
    /\ cpost = NoPost
    /\ decision = ""
    /\ cres = "loop"

\* the loop body, were the request, reblog and filter checks made before the
\* stop checks
check_filters_first(p) ==
    IF before # None /\ p.date >= before
    THEN IF dashboard_only_blog = "True" THEN "continue: date"
         ELSE "raise: date newer than before"
    ELSE IF filters.request_sets /\ ~p.requested THEN "continue: request"
    ELSE IF filters.no_reblog /\ p.reblog THEN "continue: no_reblog"
    ELSE IF filters.only_reblog /\ ~p.reblog THEN "continue: only_reblog"
    ELSE IF filters.jq_filter /\ ~p.matches THEN "continue: filter"
    ELSE IF ident_max # None /\ p.ident <= ident_max THEN "stop: incremental"
    ELSE IF filters.period # None /\ p.date < filters.period THEN "stop: period"
    ELSE IF next_ident # None /\ p.ident # next_ident THEN "stop: not found"
    ELSE IF p.exists /\ options.no_post_clobber THEN "continue: exists"
    ELSE "enqueue"

\* the loop body, were a post's file looked for only when --no-post-clobber
\* was given on the command line (never, here)
check_exists_if_asked(p) ==
    IF before # None /\ p.date >= before
    THEN IF dashboard_only_blog = "True" THEN "continue: date"
         ELSE "raise: date newer than before"
    ELSE IF ident_max # None /\ p.ident <= ident_max THEN "stop: incremental"
    ELSE IF filters.period # None /\ p.date < filters.period THEN "stop: period"
    ELSE IF next_ident # None /\ p.ident # next_ident THEN "stop: not found"
    ELSE IF filters.request_sets /\ ~p.requested THEN "continue: request"
    ELSE IF filters.no_reblog /\ p.reblog THEN "continue: no_reblog"
    ELSE IF filters.only_reblog /\ ~p.reblog THEN "continue: only_reblog"
    ELSE IF filters.jq_filter /\ ~p.matches THEN "continue: filter"
    ELSE "enqueue"

\* the loop body, were a post dated at or after 'before' skipped whatever the
\* source
check_date_skips(p) ==
    IF before # None /\ p.date >= before THEN "continue: date"
    ELSE IF ident_max # None /\ p.ident <= ident_max THEN "stop: incremental"
    ELSE IF filters.period # None /\ p.date < filters.period THEN "stop: period"
    ELSE IF next_ident # None /\ p.ident # next_ident THEN "stop: not found"
    ELSE IF filters.request_sets /\ ~p.requested THEN "continue: request"
    ELSE IF filters.no_reblog /\ p.reblog THEN "continue: no_reblog"
    ELSE IF filters.only_reblog /\ ~p.reblog THEN "continue: only_reblog"
    ELSE IF filters.jq_filter /\ ~p.matches THEN "continue: filter"
    ELSE IF p.exists /\ options.no_post_clobber THEN "continue: exists"
    ELSE "enqueue"

\* the body of _backup's loop up to the enqueuing, for the post p: the check
\* that deals with p, or "enqueue" if p survives them all
check(p) ==
    IF before # None /\ p.date >= before
    THEN IF dashboard_only_blog = "True" THEN "continue: date"
         ELSE "raise: date newer than before"
    ELSE IF ident_max # None /\ p.ident <= ident_max THEN "stop: incremental"
    ELSE IF filters.period # None /\ p.date < filters.period THEN "stop: period"
    ELSE IF next_ident # None /\ p.ident # next_ident THEN "stop: not found"
    ELSE IF filters.request_sets /\ ~p.requested THEN "continue: request"
    ELSE IF filters.no_reblog /\ p.reblog THEN "continue: no_reblog"
    ELSE IF filters.only_reblog /\ ~p.reblog THEN "continue: only_reblog"
    ELSE IF filters.jq_filter /\ ~p.matches THEN "continue: filter"
    ELSE IF p.exists /\ options.no_post_clobber THEN "continue: exists"
    ELSE "enqueue"

\* options.count is set and not 0, and the posts counted have reached it
LimitReached(n) == options.count # None /\ options.count # 0 /\ n >= options.count

\* one iteration of the loop: the next post of the sorted page is visited
BackupPost ==
    /\ cres = "loop"
    /\ Len(visited[1]) < MAX_POSTS
    /\ \E p \in PagePosts :
         /\ cpost # NoPost => p.ident < cpost.ident
         /\ cpost' = p
         /\ decision' = check(p)
         /\ visited' = <<Append(visited[1], p.ident)>>
         /\ filter_skipped' = IF check(p) = "continue: filter" THEN filter_skipped + 1
                              ELSE filter_skipped
         /\ enqueued' = IF check(p) = "enqueue" THEN Append(enqueued, p.ident)
                        ELSE enqueued
         /\ post_count' = IF check(p) = "enqueue" THEN post_count + 1 ELSE post_count
         /\ cres' = IF check(p) = "raise: date newer than before" THEN "RuntimeError"
                    ELSE IF check(p) \in {"stop: incremental", "stop: period",
                                          "stop: not found"} THEN "False"
                    ELSE IF check(p) = "enqueue" /\ LimitReached(post_count + 1)
                    THEN "False"
                    ELSE "loop"
    /\ UNCHANGED <<worldVars, procVars, tallyVars, archiveVars, parserVars, planVars,
                   loopVars, pages, pending, acct, options, source_posts, post_glob,
                   post_glob0, bpc, source_calls, identVars, filters>>
    /\ UNCHANGED notChecks

\* the page has no more posts: _backup returns True
BackupPostsDone ==
    /\ cres = "loop"
    /\ cres' = "True"
    /\ UNCHANGED <<backupVars, identVars, filters, cpost, decision>>
    /\ UNCHANGED notChecks

NextChecks == BackupPost \/ BackupPostsDone

----------------------------------------------------------------------------
(* Specifications: one component runs, the others stay idle *)

\* the ThreadPool with its producer and workers
InitSpecPool == InitPool /\ IdleFile /\ IdleMedia /\ IdleBackup /\ IdleWait /\ IdleLive /\ IdleList /\ IdleChecks
SpecPool == InitSpecPool /\ [][NextPool]_vars

\* the ThreadPool of a run given any number of threads up to NThreads, under
\* the scheduling the threads have: a worker that can take a step takes one,
\* the main thread gets to its enospc.check(), goes on enqueuing and calls
\* wait(), which returns once it can (an interrupt, and so cancel(), may never
\* come)
InitSpecPoolLive ==
    /\ IdleFile /\ IdleMedia /\ IdleBackup /\ IdleWait /\ IdleLive /\ IdleList /\ IdleChecks
    /\ queue = <<>>
    /\ unfinished_tasks = 0
    /\ quit_flag = FALSE
    /\ abort_flag = FALSE
    /\ errors = FALSE
    /\ \E n \in 1..NThreads :
          threads = [w \in Workers |-> IF w <= n THEN "wait_for_work" ELSE "exited"]
    /\ work = [w \in Workers |-> 0]
    /\ enospc_flag = "clear"
    /\ ppc = "produce"
    /\ nadded = 0
    /\ attempts = [i \in Items |-> 0]
    /\ lastOutcome = [i \in Items |-> "none"]
    /\ doneCnt = [i \in Items |-> 0]
    /\ signalCnt = [i \in Items |-> 0]
    /\ abortQueue = <<>>
    /\ abortBusy = {}
SpecPoolLive ==
    /\ InitSpecPoolLive
    /\ [][NextPool]_vars
    /\ \A w \in Workers : WF_vars(Handler(w))
    /\ WF_vars(EnospcCheck)
    /\ WF_vars(AddWork)
    /\ WF_vars(PoolWait)
    /\ WF_vars(PoolWaitReturn)

\* the ThreadPool at work on Work Items of which each is the save_post of a
\* post: the source may have returned a post id more than once, and _backup
\* enqueues the save_post of every post it is given
InitOwn ==
    /\ fs = [f \in Files |-> NoFile]
    /\ fs0 = fs
    /\ partf = [s \in Savers |-> NoFile]
    /\ spc = [s \in Savers |-> "none"]
    /\ sphase = [s \in Savers |-> "post"]
    /\ spost \in {f \in [Savers -> FilePosts] :
                    \A s \in Savers : s > 1 => f[s - 1] <= f[s]}
    /\ sexc = [s \in Savers |-> FALSE]
    /\ opt_json = FALSE
    /\ killed = FALSE
    /\ replaced = {}
InitSpecOwn == InitPool /\ InitOwn /\ IdleMedia /\ IdleBackup /\ IdleWait /\ IdleLive /\ IdleList /\ IdleChecks
SpecOwn == InitSpecOwn /\ [][NextPool]_vars

\* concurrent save_post() calls and a kill at any step
InitSpecFile == IdlePool /\ InitFile /\ IdleMedia /\ IdleBackup /\ IdleWait /\ IdleLive /\ IdleList /\ IdleChecks
SpecFile == InitSpecFile /\ [][NextFile]_vars

\* the files of one target's backup, from .first_run_options to .complete,
\* and a kill at any step
InitSpecDurable == IdlePool /\ InitDurable /\ IdleMedia /\ IdleBackup /\ IdleWait /\ IdleLive /\ IdleList /\ IdleChecks
SpecDurable == InitSpecDurable /\ [][NextDurable]_vars

\* concurrent download_media() calls
InitSpecMedia == IdlePool /\ IdleFile /\ InitMedia /\ IdleBackup /\ IdleWait /\ IdleLive /\ IdleList /\ IdleChecks
SpecMedia == InitSpecMedia /\ [][NextMedia]_vars

\* the backup of one target, under every way of backing up
InitSpecBackup ==
    /\ IdlePool /\ IdleFile /\ IdleMedia /\ IdleWait /\ IdleLive /\ IdleList /\ IdleChecks
    /\ InitBackup(1, NPosts, ParsedOptions({None}, {FALSE}))
SpecBackup == InitSpecBackup /\ [][NextBackup]_vars
SpecAsync == InitSpecBackup /\ [][NextAsync]_vars

\* the backup of several targets with one post to each blog
InitSpecMain ==
    /\ IdlePool /\ IdleFile /\ IdleMedia /\ IdleWait /\ IdleLive /\ IdleList /\ IdleChecks
    /\ InitBackup(NBlogs, 1, ParsedOptions({None, 1}, BOOLEAN))
SpecMain == InitSpecMain /\ [][NextBackup]_vars

\* the same with --skip: the first offset of the driver loop is options.skip
Skips == {0, MAX_POSTS}
InitSpecSkip ==
    /\ IdlePool /\ IdleFile /\ IdleMedia /\ IdleWait /\ IdleLive /\ IdleList /\ IdleChecks
    /\ InitBackup(1, NPosts,
                  { [o EXCEPT !.skip = s] : o \in ParsedOptions({None}, {FALSE}), s \in Skips })
SpecSkip == InitSpecSkip /\ [][NextBackup]_vars

\* the Reconciliation Planner on any archive, the posts dated in any order
\* (a post's id is given when it is made, its date when it is published)
InitSpecPlan ==
    /\ IdlePool /\ IdleFile /\ IdleMedia /\ IdleWait /\ IdleLive /\ IdleList /\ IdleChecks
    /\ InitBackupOf(1, NPosts, ParsedOptions({None}, {FALSE}), [PostIds -> Times])
NextPlan == BackupBegin \/ ProcessExistingBackup
SpecPlan == InitSpecPlan /\ [][NextPlan]_vars

\* the same, where an interrupt or a termination signal may arrive
NextSignals == NextBackup \/ KeyboardInterrupt \/ handle_term_signal
SpecSignals == InitSpecMain /\ [][NextSignals]_vars

\* one target's pass from the first add_work to the end of backup(): the
\* ThreadPool with backup() as its producer, after a loop that no failed fetch
\* ended, over an archive complete or not
InitSpecPass ==
    /\ InitPool /\ IdleFile /\ IdleMedia /\ IdleWait /\ IdleLive /\ IdleList /\ IdleChecks
    /\ proc = "running"
    /\ blogs = <<1>>
    /\ acct = 1
    /\ failed_blogs = <<>>
    /\ postfail_blogs = <<>>
    /\ total_count = 0
    /\ exit_status = None
    /\ raised = ""
    /\ orig_options = <<>>
    /\ options = <<>>
    /\ all_posts = {}
    /\ timestamp = <<>>
    /\ utcoffset = 0
    /\ source_posts = {}
    /\ first_run_options = NoOptionsFile
    /\ complete_backup \in BOOLEAN
    /\ post_glob = {}
    /\ prev_resps = NoResps
    /\ prev_iter = 0
    /\ last_mode = "None"
    /\ last_offset = None
    /\ dashboard_only_blog = "False"
    /\ bpc = "pool"
    /\ post_count = 0
    /\ filter_skipped = 0
    /\ oldest_tstamp = None
    /\ write_fro = FALSE
    /\ ident_max = None
    /\ before = None
    /\ start = 0
    /\ resp = NoResponse
    /\ pending = {}
    /\ enqueued = <<>>
    /\ pages = <<>>
    /\ visited = <<>>
    /\ source_calls = <<>>
    /\ post_glob0 = {}
    /\ remaining_idents = <<>>
    /\ next_ident = None
    /\ not_found = <<>>
NextPass == NextPool \/ PoolFinish
SpecPass == InitSpecPass /\ [][NextPass]_vars

\* the same pass, ended by the failed fetch of a page; no interrupt arrives
NextFailedFetch ==
    \/ AddWork
    \/ FetchFailsInPass
    \/ PoolWaitReturn
    \/ EnospcCheck
    \/ \E w \in Workers : Handler(w)
    \/ PoolFinish
SpecFailedFetch == InitSpecPass /\ [][NextFailedFetch]_vars

\* the backup of one target in explicit-id mode
InitSpecIdents == IdlePool /\ IdleFile /\ IdleMedia /\ IdleWait /\ IdleLive /\ IdleList /\ IdleChecks /\ InitIdents
SpecIdents == InitSpecIdents /\ [][NextIdents]_vars

\* the Replay Response Source under any sequence of calls
InitSpecReplay == IdlePool /\ IdleFile /\ IdleMedia /\ IdleWait /\ IdleLive /\ IdleList /\ IdleChecks /\ InitReplay
SpecReplay == InitSpecReplay /\ [][ApiparseReplay]_vars

\* the Live Response Source under any answers of the server
InitSpecLive == IdlePool /\ IdleFile /\ IdleMedia /\ IdleWait /\ IdleList /\ IdleChecks /\ InitLive
SpecLive == InitSpecLive /\ [][NextLive]_vars

\* the threads of a backup at their suspension points
InitSpecWait == IdlePool /\ IdleFile /\ IdleMedia /\ IdleBackup /\ InitWait /\ IdleLive /\ IdleList /\ IdleChecks
SpecWait == InitSpecWait /\ [][NextWait]_vars

\* _backup on any page, in any state of its closure
InitSpecChecks ==
    /\ IdlePool /\ IdleFile /\ IdleMedia /\ IdleWait /\ IdleLive /\ IdleList
    /\ InitChecks
SpecChecks == InitSpecChecks /\ [][NextChecks]_vars

\* the media list of one target over its runs
InitSpecList ==
    /\ IdlePool /\ IdleFile /\ IdleMedia /\ IdleBackup /\ IdleWait /\ IdleLive
    /\ IdleChecks /\ InitList
SpecList == InitSpecList /\ [][NextList]_vars

----------------------------------------------------------------------------
(* Properties of the ThreadPool *)

\* C6: whenever cancel() has returned, every worker thread has terminated and
\* the queue is empty, and no item that was still queued when the abort flag
\* was set has been executed.
C6_CancelJoinsAndEmpties ==
    /\ ppc = "cancelled" => (LiveWorkers = {} /\ queue = <<>>)
    /\ abort_flag => \A k \in 1..Len(abortQueue) : attempts[abortQueue[k]] = 0

\* cancel() has returned in a run where it found items queued and a worker
\* in the middle of an item
C6_Witness ==
    /\ ppc = "cancelled"
    /\ abortQueue # <<>>
    /\ abortBusy # {}

\* C9 (as claimed): an item whose work() raised an error other than ENOSPC is
\* recorded as failed (errors is set), is marked done, and its worker lives
\* on: until quit or abort all N workers are alive.
C9_OtherErrorRecordedWorkerLives ==
    /\ \A i \in Items : lastOutcome[i] = "raised" => (errors /\ doneCnt[i] = 1)
    /\ (~quit_flag /\ ~abort_flag) => LiveWorkers = Workers

\* C10: an item whose work() raised ENOSPC stays with its worker, which has
\* raised the disk-full signal once per such attempt and retries it; the item
\* is marked done at most once, and only after an attempt that did not end in
\* ENOSPC.
C10_EnospcRetriesSameItem ==
    \A i \in Items :
        /\ doneCnt[i] <= 1
        /\ doneCnt[i] = 1 => lastOutcome[i] \in {"ok", "failed", "raised"}
        /\ signalCnt[i] = attempts[i] - doneCnt[i]
        /\ Cardinality({w \in Workers : work[w] = i}) <= 1
        /\ lastOutcome[i] = "enospc" =>
              /\ doneCnt[i] = 0
              /\ \E w \in Workers : work[w] = i /\ threads[w] \in {"work", "enospc_signal"}

\* an item that hit ENOSPC twice in a row and was then completed
C10_Witness ==
    \E i \in Items : signalCnt[i] >= 2 /\ attempts[i] >= 3 /\ doneCnt[i] = 1

\* C11: the queue never holds more Work Items than its capacity, and never
\* more than the tasks counted as unfinished: the producer's enqueue happens
\* only while the queue holds fewer items than its capacity.
C11_QueueWithinCapacity ==
    /\ Len(queue) <= MaxQueue
    /\ Len(queue) <= unfinished_tasks

\* the producer has more to enqueue and the queue is at capacity: the
\* producer waits
C11_Witness ==
    /\ ppc = "produce"
    /\ nadded < MaxItems
    /\ Len(queue) = MaxQueue

\* the unfinished-task count is the number of items enqueued and not marked
\* done; wait() returns only when it is zero, with nothing queued or in
\* flight, every item enqueued having been popped, executed and marked done
\* once
WaitReturnsWhenAllDone ==
    /\ unfinished_tasks = Cardinality({i \in 1..nadded : doneCnt[i] = 0})
    /\ ppc = "waited" =>
           /\ unfinished_tasks = 0
           /\ queue = <<>>
           /\ \A w \in Workers : work[w] = 0
           /\ \A i \in 1..nadded :
                  /\ doneCnt[i] = 1
                  /\ attempts[i] >= 1
                  /\ lastOutcome[i] \in {"ok", "failed", "raised"}

\* C12: wait() returns only in a state where no Work Item is queued or in
\* flight, every item enqueued having been popped by one worker and executed;
\* and (short of cancel()) a worker thread ends only after the quit flag is
\* set and the queue is empty.
C12_WaitDrainsWorkersExitLast ==
    /\ WaitReturnsWhenAllDone
    /\ \A w \in Workers :
           (w \notin LiveWorkers /\ ~abort_flag) => (quit_flag /\ queue = <<>>)

ItemHeldByOneWorker ==
    \A v, w \in Workers : (v # w /\ work[v] # 0) => work[v] # work[w]

\* C25: each Work Item is held by one worker only, and no two workers hold
\* Work Items for the same post id at the same time, whatever post ids the
\* source returned (a post id returned twice included).
C25_NoTwoWorkersOnOnePost ==
    \A v, w \in Workers :
        (v # w /\ work[v] # 0 /\ work[w] # 0) =>
            /\ work[v] # work[w]
            /\ spost[work[v]] # spost[work[w]]

\* the Work Items queued or in flight
InPool(i) == (\E k \in 1..Len(queue) : queue[k] = i) \/ (\E w \in Workers : work[w] = i)

\* C17: no work is lost to a Fault Signal: every Work Item that is queued or
\* in flight when the disk-full signal is raised is eventually executed and
\* marked done (unless the backup is cancelled).
C17_NoWorkLostToFaultSignal ==
    \A i \in Items :
        (enospc_flag = "raised" /\ InPool(i)) ~> (doneCnt[i] = 1 \/ abort_flag)

\* C38: every execution of a Work Item comes to an end and the disk-full
\* signal is cleared whenever it is raised: wait(), once called, returns in
\* the end (unless the backup is cancelled), whatever the number of workers,
\* whatever is queued, and also when executions raise errors other than ENOSPC
C38_WaitReturns == (ppc = "wait") ~> (ppc = "waited" \/ abort_flag)

----------------------------------------------------------------------------
(* Properties of save_post and open_outfile *)

\* C5: at every step, and so wherever the process is killed, each post's final
\* path holds no file, the complete file of an earlier run, or the complete new
\* file, never a truncated one; a final path that no os.replace() has reached is
\* as it was before the run; and once the with-body has raised and save_post()
\* is over, the temp file is gone.
C5_NoTruncatedFinalFile ==
    /\ \A f \in Paths : fs[f].content \in {"absent", "old", "new"}
    /\ \A f \in Paths : f \notin replaced => fs[f] = fs0[f]
    /\ \A s \in Savers :
          (sexc[s] /\ spc[s] \in {"raised", "returned_false"})
             => partf[s] = NoFile

\* the process was killed while one save_post() had written part of its temp
\* file, and another had rolled back after its body raised part-way
C5_Witness ==
    /\ killed
    /\ \E s \in Savers : spc[s] = "body" /\ partf[s].content = "partial"
    /\ \E s \in Savers : spc[s] = "returned_false" /\ sexc[s]
    /\ \E f \in Paths : fs[f].content = "new"

\* C15 as stated: every file persisted (post, JSON document, completion
\* marker, options snapshot) comes under its final name only by the rename of
\* a temporary file that was written, then fsynced, then given its
\* permissions: a final name that holds another file than before the run was
\* the target of an os.replace and holds a complete, synced file, and a
\* temporary file has its final permissions only after its fsync.
C15_EveryFileThroughTempAndRename ==
    /\ \A f \in Files : fs[f] # fs0[f] =>
           /\ f \in replaced
           /\ fs[f] = [content |-> "new", mode |-> "0644", synced |-> TRUE]
    /\ \A s \in Savers : partf[s].mode = "0644" => partf[s].synced

\* C15, amended: a post, a JSON document and the options snapshot come under
\* their final names only by the rename of a temporary file that was written
\* whole, given its permissions and then fsynced, in that order (the rename
\* never comes before the fsync); the completion marker, an empty file, is
\* created under its final name and fsynced there.  No final name ever holds
\* a partially written file.
C15_DurableWriteProtocol ==
    /\ \A f \in Paths :
           IF f \in replaced
           THEN fs[f] = [content |-> "new", mode |-> "0644", synced |-> TRUE]
           ELSE fs[f] = fs0[f]
    /\ \A s \in Savers :
           /\ partf[s].synced => partf[s].mode = "0644"
           /\ spc[s] = "replace" =>
                  partf[s] = [content |-> "new", mode |-> "0644", synced |-> TRUE]
    /\ MarkerPath \notin replaced
    /\ fs[MarkerPath] # fs0[MarkerPath] =>
           /\ fs0[MarkerPath] = NoFile
           /\ fs[MarkerPath].content = "empty"

\* a backup wrote its options snapshot, the JSON document and the file of a
\* post, and its completion marker
C15_Witness ==
    /\ {OptionsPath, <<"json", 1>>, <<"post", 1>>} \subseteq replaced
    /\ fs[MarkerPath] = [content |-> "empty", mode |-> "0644", synced |-> TRUE]

----------------------------------------------------------------------------
(* Properties of download_media *)

\* the downloaders inside the download section for media path m
InSection(m) ==
    {d \in Downloaders : media_path[d] = m
                         /\ mpc[d] \in {"inner", "wget_retrieve", "finally"}}

\* the downloaders whose wget_retrieve for media path m succeeded
Downloaded(m) ==
    {d \in Downloaders : media_path[d] = m /\ retrieved[d] > 0
                         /\ mpc[d] \in {"finally", "returned"} /\ mresult[d] = "name"}

\* C4 (as claimed): of two download_media() calls for one media path that
\* needed a download (no file there, none in the previous archive, no_get
\* off), exactly one has called wget_retrieve when both have returned.
C4_ExactlyOneDownloads ==
    \A d1, d2 \in Downloaders :
        (/\ d1 < d2
         /\ media_path[d1] = media_path[d2]
         /\ ~media_file0[media_path[d1]]
         /\ media_path[d1] \notin prev_media
         /\ ~no_get
         /\ mpc[d1] = "returned" /\ mpc[d2] = "returned")
        => retrieved[d1] + retrieved[d2] = 1

\* C4 (amended): at most one thread is inside the download section of a media
\* path; wget_retrieve runs only while no file is at the path, each thread
\* calls it at most once, and at most one call per path succeeds: once the
\* file is there, a thread admitted later performs no network I/O.
C4_OneInSectionOneSuccess ==
    \A m \in MediaPaths :
        /\ Cardinality(InSection(m)) <= 1
        /\ (m \in downloading_media) = (InSection(m) # {})
        /\ Cardinality(Downloaded(m)) <= 1
        /\ \A d \in Downloaders :
              /\ retrieved[d] <= 1
              /\ (media_path[d] = m /\ mpc[d] = "wget_retrieve") => ~media_file[m]
              /\ (media_path[d] = m /\ retrieved[d] = 1) =>
                    (~media_file0[m] /\ m \notin prev_media /\ ~no_get)

\* two calls for one media path have returned: one downloaded the file, the
\* other found it and made no wget_retrieve call
C4_Witness ==
    \E d1, d2 \in Downloaders :
        /\ d1 # d2
        /\ media_path[d1] = media_path[d2]
        /\ mpc[d1] = "returned" /\ mpc[d2] = "returned"
        /\ retrieved[d1] = 1 /\ mresult[d1] = "name"
        /\ retrieved[d2] = 0 /\ mresult[d2] = "name"

----------------------------------------------------------------------------
(* Properties of the driver loop *)

\* the loop of the target under backup ran until its source gave an empty page
SourceExhausted ==
    /\ proc = "running"
    /\ bpc = "wait"
    /\ resp.kind = "ok"
    /\ resp.posts = <<>>

\* the posts _backup visited while backing up the target
Visited == UNION { SeqToSet(visited[j]) : j \in 1..Len(visited) }

\* C1: continuing a backup whose Resume Cursor is the timestamp T
\* (oldest_tstamp) never enqueues a post dated T or later, and skips no post
\* dated before T that the source holds: once the loop has read the source (an
\* archive replayed, the dates of the post files read in their own time zone)
\* to its end, every such post that is not on disk yet was enqueued or left
\* out by a check.
C1_ResumeNeitherResavesNorSkips ==
    (options.resume /\ oldest_tstamp # None) =>
        /\ \A j \in 1..Len(enqueued) : timestamp[enqueued[j]] < oldest_tstamp
        /\ (SourceExhausted /\ prev_resps # NoResps /\ utcoffset = 0) =>
               \A p \in source_posts \ post_glob0 :
                   timestamp[p] < oldest_tstamp => p \in Visited

\* continuing a backup never enqueues a post dated at or after the Resume
\* Cursor
ResumeNeverResaves ==
    (options.resume /\ oldest_tstamp # None) =>
        \A j \in 1..Len(enqueued) : timestamp[enqueued[j]] < oldest_tstamp

\* a fresh run of a backup keyed by post id: no Resume Cursor, no Incremental
\* Ceiling, no limit
FreshRun ==
    /\ proc = "running"
    /\ bpc \in {"loop", "batch", "wait"}
    /\ ~options.likes
    /\ ~options.resume
    /\ ~options.incremental
    /\ options.count = None

\* the ids of a page are strictly descending along s
DescendingIds(s) == \A j \in 1..(Len(s) - 1) : s[j] > s[j + 1]

\* the posts enqueued for the first n pages
RECURSIVE Upto(_)
Upto(n) == IF n = 0 THEN 0 ELSE Upto(n - 1) + Len(pages[n])

\* C2: in a fresh run (no filters, no limits, no Resume Cursor) whose source
\* gives non-empty pages and then an empty one, the driver enqueues every post
\* of every page exactly once, page by page and by descending id within each
\* page, and the loop stops at the empty page without another fetch.
C2_FreshRunEnqueuesEveryPage ==
    FreshRun =>
        /\ \A j \in 1..Len(pages) :
               pages[j] = <<>> => (j = Len(pages) /\ bpc = "wait")
        /\ Len(SelectSeq(source_calls, LAMBDA c : c = "fetch")) = Len(pages)
               + (IF bpc = "wait" /\ resp.kind = "None" THEN 1 ELSE 0)
        /\ SourceExhausted =>
               /\ Len(enqueued) = Upto(Len(pages))
               /\ \A j \in 1..Len(pages) :
                      LET part == SubSeq(enqueued, Upto(j - 1) + 1, Upto(j))
                      IN  /\ SeqToSet(part) = SeqToSet(pages[j])
                          /\ DescendingIds(part)

\* a fresh run ended after two non-empty pages and an empty one, the first of
\* which the source did not give in descending id order
C2_Witness ==
    /\ FreshRun
    /\ SourceExhausted
    /\ Len(pages) = 3
    /\ Len(pages[1]) = MAX_POSTS
    /\ pages[2] # <<>>
    /\ ~DescendingIds(pages[1])

TightensBound ==
    /\ bpc = "batch"
    /\ bpc' = "loop"
    /\ ~options.likes
    /\ dashboard_only_blog # "True"
    /\ before # None

\* the date of the last post _backup visited in the page processed last
OldestDateProcessed == timestamp[visited[Len(visited)][Len(visited[Len(visited)])]]

Calls(c) == Cardinality({ k \in DOMAIN source_calls : source_calls[k] = c })

\* this step puts the request for a page after the first
PutsNextPage ==
    /\ Calls("put")' = Calls("put") + 1
    /\ pages # <<>>

\* a request was put and its response not yet taken
FetchOutstanding == Calls("put") - Calls("get")

\* C26 as stated: the request for page N+1 is put while _backup of page N is
\* still at work (page N fetched, its posts not yet all visited), and never
\* more than one request is outstanding.
C26_FetchOverlapsEnqueue ==
    /\ [](FetchOutstanding \in {0, 1})
    /\ [][PutsNextPage => Len(visited) < Len(pages)]_vars

\* C26: the request for page N+1 is put only after _backup of page N has
\* returned (every page fetched has been visited to its end), while Work Items
\* of page N may still be pending; a request is put only after the response to
\* the one before has been taken, so never more than one is outstanding.
C26_FetchAfterEnqueue ==
    /\ [](FetchOutstanding \in {0, 1})
    /\ [][PutsNextPage => /\ Len(visited) = Len(pages)
                          /\ FetchOutstanding = 0
                          /\ resp # Outstanding]_vars

\* the request for the second page is outstanding while posts of the first are
\* still with the ThreadPool
C26_Witness ==
    /\ bpc = "fetch"
    /\ resp = Outstanding
    /\ Len(pages) = 1
    /\ Len(visited) = 1
    /\ pending # {}
    /\ FetchOutstanding = 1

----------------------------------------------------------------------------
(* Properties of the planner and of the loop over the targets *)

\* the recorded options f lack, or give another value to, an option that
\* must always match
MustMatchDiffers(f) ==
    \E opt \in {"likes", "blosxom", "dirs", "hostdirs", "image_names"} :
        opt \notin f.present \/ f.val[opt] # orig_options[opt]

\* C7: when the options of the run differ from the archive's recorded
\* first-run options in an option that must always match, the run for the
\* target is rejected with a fatal error, whatever resume, ignore_diffopt and
\* the archive's completeness, and before any Response Source call.
C7_MustMatchRejectedBeforeSourceCall ==
    (first_run_options.file /\ MustMatchDiffers(first_run_options)) =>
        /\ proc = "crashed"
        /\ raised = "RuntimeError: must match"
        /\ source_calls = <<>>

\* a run given --continue and --ignore-diffopt was rejected over a complete
\* archive
C7_Witness ==
    /\ first_run_options.file
    /\ MustMatchDiffers(first_run_options)
    /\ options.resume
    /\ options.ignore_diffopt
    /\ complete_backup
    /\ raised = "RuntimeError: must match"
    /\ source_calls = <<>>

\* process_existing_backup has looked at the archive of the current target
Planned == bpc \notin {"main", "plan"} \/ (bpc = "plan" /\ proc = "crashed")

\* the backup-changing options in which the run differs from the recorded
\* first-run options
Differing ==
    { opt \in {"count"} :
        opt \notin first_run_options.present
        \/ first_run_options.val[opt] # orig_options[opt] }

\* the archive is incomplete and the run differs from its recorded first-run
\* options only in backup-changing options
DiffersInBackupChangingOnly ==
    /\ Planned
    /\ first_run_options.file
    /\ ~complete_backup
    /\ ~MustMatchDiffers(first_run_options)
    /\ Differing # {}

\* the fatal errors that name the old and the new values of the options
DiffErrors == {"RuntimeError: different options", "RuntimeError: refusing different backup"}

\* C19 as stated: over an incomplete archive whose recorded options differ
\* from the run's only in backup-changing options, the planner accepts the
\* run if it is an explicit resume or ignore_diffopt is given, and in every
\* other case raises a fatal error naming the old and new values.
C19_ResumeOrIgnoreAccepted ==
    DiffersInBackupChangingOnly =>
        IF options.resume \/ options.ignore_diffopt
        THEN raised \notin DiffErrors
        ELSE raised \in DiffErrors

\* C19 (amended): over such an archive the planner's check of the
\* backup-changing options passes if ignore_diffopt is given, and passes for
\* an explicit resume if every differing option has its default value in the
\* run; in every other case it raises a fatal error naming the old and new
\* values.
C19_DefaultResumeOrIgnorePasses ==
    DiffersInBackupChangingOnly =>
        IF \/ options.ignore_diffopt
           \/ options.resume /\ \A opt \in Differing : orig_options[opt] = None
        THEN raised \notin DiffErrors
        ELSE raised \in DiffErrors

\* a run given --continue and no count went on over an incomplete archive made
\* with a count, whose count it took over
C19_Witness ==
    /\ DiffersInBackupChangingOnly
    /\ options.resume
    /\ ~options.ignore_diffopt
    /\ bpc = "read_archive"
    /\ orig_options.count = None
    /\ options.count = 1

\* C22: the exit status tells four outcomes apart: 'interrupted' when a
\* keyboard interrupt or a termination signal arrived during a target; else
\* 'one or more errors' exactly when some target failed or had post-level
\* failures; else 'no posts produced' exactly when the total post count is
\* zero; else success.
C22_ExitStatusTellsOutcomes ==
    proc = "exited" =>
        exit_status =
            IF raised \in {"KeyboardInterrupt", "SystemExit"} THEN 3
            ELSE IF failed_blogs # <<>> \/ postfail_blogs # <<>> THEN 4
            ELSE IF total_count = 0 THEN 1
            ELSE 0

\* the fatal conditions of a target
FatalConditions ==
    {"RuntimeError: must match", "RuntimeError: previous archive must match",
     "RuntimeError: different options", "RuntimeError: refusing different backup",
     "RuntimeError: date newer than before", "RuntimeError: rate limit"}

\* C8: a fatal condition raised while backing up one target aborts only that
\* target: the target is recorded as failed and the remaining targets are
\* still attempted (the process goes on).
C8_FatalAbortsOnlyThatTarget ==
    raised \in FatalConditions =>
        /\ proc # "crashed"
        /\ blogs[acct] \in SeqToSet(failed_blogs)

----------------------------------------------------------------------------
(* Properties of backup() in explicit-id mode *)

\* once an id is logged as not found no post is enqueued
NothingEnqueuedAfterNotFound == [][not_found' # <<>> => enqueued' = enqueued]_vars

\* C18: in explicit-id mode a requested id that is not found is fatal for the
\* target: from the moment it is logged as not found no post is enqueued, and
\* when backup() returns the target is recorded as failed.
C18_IdentNotFoundFailsTarget ==
    [][not_found' # <<>> =>
          /\ enqueued' = enqueued
          /\ bpc' = "main" => blogs[1] \in SeqToSet(failed_blogs')]_vars

\* this step of the loop pops the next requested id and fetches it
RequestsIdent ==
    /\ bpc = "loop"
    /\ remaining_idents # <<>>
    /\ remaining_idents' = Tail(remaining_idents)

\* the number of the fetch this step makes, counted from 1
FetchNumber == Len(options.idents) - Len(remaining_idents) + 1

\* C35, for the explicit-id list: the k-th fetch requests the k-th largest id
\* of the list, no id is requested twice (every request is for a lower id than
\* the one before), the offset is not what advances, and with the list
\* exhausted the loop ends without another fetch.
C35_IdentCursorAdvances ==
    /\ [][RequestsIdent =>
              /\ next_ident' = sorted(orig_options.idents, Ident)[FetchNumber]
              /\ next_ident # None => next_ident' < next_ident]_vars
    /\ [][(bpc = "loop" /\ remaining_idents = <<>>) =>
              (bpc' = "wait" /\ UNCHANGED <<next_ident, resp, enqueued>>)]_vars

\* C36: whatever the options of the run, every fetch the driver loop makes
\* from an archive replayed satisfies the assertions apiparse makes on it
\* (the first offset is 0, each later one the one before plus MAX_POSTS, the
\* paging mode stays, the 'before' bounds decrease): no assertion fails
C36_DriverMeetsReplayAsserts ==
    (proc = "running" /\ bpc = "loop" /\ prev_resps # NoResps) => ReplayAsserts

\* a limit on the number of posts is set
HasLimit == options.count # None /\ options.count > 0

\* C37: with a limit N > 0 on the number of posts, the post count of a run
\* past the planner never exceeds N, also in a run that continues and starts
\* its count at the number of posts saved before, and once the count has
\* reached N no further post is enqueued
C37_CountWithinLimit ==
    /\ [](HasLimit /\ bpc \notin {"main", "plan"} => post_count <= options.count)
    /\ [][(HasLimit /\ bpc \notin {"main", "plan"} /\ post_count >= options.count)
              => Len(enqueued') <= Len(enqueued)]_vars

----------------------------------------------------------------------------
(* Properties of the Replay Response Source *)

\* the calls before call k that raised no AssertionError
Served(k) == { j \in 1..(k - 1) : source_calls[j].outcome # "AssertionError" }

\* C20: the Replay Response Source keeps to one direction of traversal: a call
\* whose mode (before, offset or ident) is not the mode of every call served
\* before it fails an assertion, and so does a call by 'before' whose bound is
\* not strictly less than the bound of the latest call served; such a call
\* returns no batch.
C20_ReplayOneDirection ==
    \A k \in 1..Len(source_calls) :
        (\/ \E j \in Served(k) : source_calls[j].mode # source_calls[k].mode
         \/ /\ source_calls[k].mode = "before"
            /\ \E j \in Served(k) :
                 /\ \A h \in Served(k) : h <= j
                 /\ source_calls[k].before >= source_calls[j].before)
        => /\ source_calls[k].outcome = "AssertionError"
           /\ k = Len(source_calls) => raised = "AssertionError"

\* a call by 'before' was served a batch and the next call, by 'before' with a
\* bound not below it, failed its assertion and left the served batch in
\* place; and a call by offset after a call by 'before' fails too
C20_Witness ==
    /\ Len(source_calls) = 3
    /\ source_calls[1].mode = "before"
    /\ source_calls[1].outcome = "batch"
    /\ source_calls[2].mode = "before"
    /\ source_calls[2].before >= source_calls[1].before
    /\ source_calls[2].outcome = "AssertionError"
    /\ source_calls[3].mode \in {"offset", "ident"}
    /\ source_calls[3].outcome = "AssertionError"

----------------------------------------------------------------------------
(* Properties of the Live Response Source *)

\* the 429 answers the rate-limit policy is asked about: those that came
\* before the request had TRY_LIMIT answers
Limited == { k \in 1..Len(answers) : answers[k].status = 429 /\ answers[k].n < TRY_LIMIT }

\* no request gets more than TRY_LIMIT answers, and a 429 that is the
\* TRY_LIMIT-th answer is returned, as a failed fetch
AtMostTryLimit ==
    /\ \A k \in 1..Len(answers) : answers[k].n <= TRY_LIMIT
    /\ \A k \in 1..Len(answers) :
          (answers[k].status = 429 /\ answers[k].n = TRY_LIMIT) =>
              /\ answers[k].did = "return"
              /\ k = Len(answers)
              /\ lpc = "idle"
              /\ lresult = "None"

\* C23 as stated: on a 429 a daily quota used up raises a fatal error, an
\* hourly reset of more than 3600 seconds raises a fatal error, and otherwise
\* the thread sleeps no longer than the reset duration and the request is
\* retried; a request gets at most TRY_LIMIT answers, after which the 429 is
\* returned as a failed fetch.
C23_SleepsAtMostResetAndRetries ==
    /\ AtMostTryLimit
    /\ \A k \in Limited :
          IF answers[k].remaining = "0" THEN answers[k].did = "raise"
          ELSE IF answers[k].kind = "number" /\ answers[k].reset > 3600
          THEN answers[k].did = "raise"
          ELSE /\ answers[k].did \in {"sleep", "retry"}
               /\ answers[k].kind = "number" => answers[k].slept <= answers[k].reset

\* C23 (amended): on a 429 that is not the TRY_LIMIT-th answer to the request
\* a daily quota used up raises a fatal error; else an hourly reset that is
\* absent or not a number returns the 429 as a failed fetch at once; a reset
\* in the past retries the request without sleeping; a reset of more than
\* 3600 seconds raises a fatal error; otherwise the thread sleeps one second
\* longer than the reset duration, at most 3601 seconds, and the request is
\* retried. A request gets at most TRY_LIMIT answers, and a 429 that is the
\* TRY_LIMIT-th is returned as a failed fetch, whatever its headers.
C23_RateLimitPolicy ==
    /\ AtMostTryLimit
    /\ \A k \in Limited :
          IF answers[k].remaining = "0" THEN answers[k].did = "raise"
          ELSE IF answers[k].kind # "number"
          THEN answers[k].did = "return" /\ (lpc = "idle" => lresult = "None")
          ELSE IF answers[k].reset < 0
          THEN answers[k].did = "retry" /\ answers[k].slept = 0
          ELSE IF answers[k].reset > 3600 THEN answers[k].did = "raise"
          ELSE /\ answers[k].did = "sleep"
               /\ answers[k].slept = answers[k].reset + 1
               /\ answers[k].slept <= 3601

\* a request was answered 429 twice: the thread slept through the hour the
\* first answer asked for, and the second, of a daily quota used up, was
\* returned as a failed fetch
C23_Witness ==
    /\ Len(answers) = 2
    /\ answers[1].status = 429
    /\ answers[1].reset = 3600
    /\ answers[1].did = "sleep"
    /\ answers[2].status = 429
    /\ answers[2].remaining = "0"
    /\ answers[2].n = TRY_LIMIT
    /\ lresult = "None"

\* C24: the blog mode an ApiParser has detected changes only from undetermined
\* to restricted or to public, so at most once, and apiparse() calls itself
\* for the alternate endpoint at most once in the ApiParser's life, whatever
\* the answers to that call and to later calls are.
C24_ModeDetectedOnce ==
    [][/\ dashboard_only_blog' # dashboard_only_blog =>
             /\ dashboard_only_blog = "None"
             /\ dashboard_only_blog' \in {"True", "False"}
       /\ recursions' <= 1]_vars

\* the blog was found dashboard-only, and a later call that was answered 404
\* returned None without another call for the alternate endpoint
C24_Witness ==
    /\ dashboard_only_blog = "True"
    /\ recursions = 1
    /\ ncalls >= 2
    /\ lpc = "idle"
    /\ Len(answers) = 1
    /\ answers[1].status = 404
    /\ lresult = "None"

----------------------------------------------------------------------------
(* Properties of the suspension points *)

\* C16 as stated: every suspension point of the producer and of the workers
\* waits on both Fault Signals, so that the raise of either wakes every
\* thread blocked at any of them.
C16_RaiseWakesEveryThread == at_raise.left = {}

\* C16, amended: the suspension points of the producer (the wait for a page,
\* for queue space and, in ThreadPool.wait(), for the tasks to finish) wait on
\* both Fault Signals, and the raise of either wakes the producer wherever it
\* is blocked; the workers' suspension points wait on their own conditions
\* only, and a raise leaves a worker blocked there asleep.
C16_RaiseWakesProducer ==
    /\ Producer \notin at_raise.left
    /\ fault # {} => asleep[Producer] = "none"
    /\ at_raise.woke \subseteq {Producer}

\* a Fault Signal was raised with the producer blocked and a worker blocked:
\* the producer woke, the worker did not
C16_Witness ==
    /\ at_raise.woke = {Producer}
    /\ at_raise.left # {}
    /\ fault # {}

\* C14: finalization writes the completion marker only if no failure was
\* recorded for the target in this pass, neither a target-level one
\* (failed_blogs) nor a post-level one (postfail_blogs), and no marker exists
\* yet; else it leaves the marker as it is.
C14_MarkerOnlyWithoutFailure ==
    [][(bpc \in {"wait", "pool"} /\ complete_backup' # complete_backup) =>
          /\ ~complete_backup
          /\ blogs[acct] \notin SeqToSet(failed_blogs')
          /\ blogs[acct] \notin SeqToSet(postfail_blogs')]_vars

\* the pass of the target was ended by the failed fetch of a page, with Work
\* Items enqueued before
FetchFailed == blogs[acct] \in SeqToSet(failed_blogs) /\ nadded > 0
PassEndedFetchFailed == bpc = "main" /\ blogs[1] \in SeqToSet(failed_blogs) /\ nadded > 0

\* what the failed fetch does and what follows it: the target is recorded as
\* failed and the loop gives way to wait() with the pool not cancelled; when
\* the pass has ended, every Work Item enqueued has been executed and marked
\* done
FailedFetchDrains ==
    /\ [][(bpc = "pool" /\ ppc = "produce" /\ failed_blogs' # failed_blogs) =>
              /\ failed_blogs' = Append(failed_blogs, blogs[acct])
              /\ ppc' = "wait"
              /\ ~abort_flag'
              /\ queue' = queue]_vars
    /\ [](PassEndedFetchFailed =>
              /\ ~abort_flag
              /\ \A i \in 1..nadded : attempts[i] >= 1 /\ doneCnt[i] = 1)

\* C40 (as claimed): a failed fetch after posts were enqueued records the
\* target as failed and ends the loop without cancelling the pool, the Work
\* Items enqueued are all executed before the pass ends, and Finalization
\* writes no completion marker, so that the archive is incomplete to a later
\* run
C40_FailedFetchLeavesIncomplete ==
    /\ FailedFetchDrains
    /\ [](PassEndedFetchFailed => ~complete_backup)

\* C40 (amended): ... and Finalization writes no completion marker: the
\* marker is as it was before the pass, so that an archive that had none is
\* incomplete to a later run
C40_FailedFetchWritesNoMarker ==
    /\ FailedFetchDrains
    /\ [][(bpc = "pool" /\ FetchFailed) => complete_backup' = complete_backup]_vars

\* the pass is over after a failed fetch that followed two add_work: both
\* items were executed, one by an attempt that raised ENOSPC first, and the
\* archive has no completion marker
C40_Witness ==
    /\ PassEndedFetchFailed
    /\ nadded = MaxItems
    /\ \E i \in Items : signalCnt[i] >= 1
    /\ ~complete_backup

----------------------------------------------------------------------------
(* Properties of the Reconciliation Planner *)

\* C31: the Resume Cursor the planner returns for a resume is the earliest of
\* the dates read from the post files on disk, with likes and without, also
\* when the post of the lowest id is not the earliest one.
C31_ResumeCursorIsOldest ==
    (bpc = "read_archive" /\ options.resume) =>
        oldest_tstamp = MinOf({ get_post_timestamp(p) : p \in post_glob0 })

----------------------------------------------------------------------------
(* Properties of the checks _backup makes on a post *)

\* this step visits a post
Visits == cres = "loop" /\ cpost' # cpost

\* the date of p is at or after the 'before' bound
DateViolates(p) == before # None /\ p.date >= before

\* p meets a stop condition: Incremental Ceiling, period end, or not the id
\* asked for
MeetsStop(p) ==
    \/ ident_max # None /\ p.ident <= ident_max
    \/ filters.period # None /\ p.date < filters.period
    \/ next_ident # None /\ p.ident # next_ident

\* the request or the reblog check leaves p out
RequestRejects(p) ==
    \/ filters.request_sets /\ ~p.requested
    \/ filters.no_reblog /\ p.reblog
    \/ filters.only_reblog /\ ~p.reblog

\* the filter expression leaves p out
FilterRejects(p) == filters.jq_filter /\ ~p.matches

\* C32: the stop checks come before the request, reblog and filter checks: a
\* post that meets a stop condition ends the loop whatever the filters say of
\* it, and is neither enqueued nor counted as filtered out.  A post the filter
\* expression leaves out (having passed the checks before it) adds one to
\* filter_skipped and nothing else: it is not enqueued, post_count stays, the
\* loop goes on, and neither the target nor the ThreadPool is marked failed.
C32_StopChecksBeforeFilters ==
    [][Visits =>
          /\ (~DateViolates(cpost') /\ MeetsStop(cpost')) =>
                 /\ cres' = "False"
                 /\ UNCHANGED <<enqueued, post_count, filter_skipped>>
          /\ (~DateViolates(cpost') /\ ~MeetsStop(cpost') /\ ~RequestRejects(cpost')
                  /\ FilterRejects(cpost')) =>
                 /\ filter_skipped' = filter_skipped + 1
                 /\ cres' = "loop"
                 /\ UNCHANGED <<enqueued, post_count, failed_blogs, postfail_blogs,
                                errors, proc>>
          /\ filter_skipped' # filter_skipped =>
                 (FilterRejects(cpost') /\ ~MeetsStop(cpost'))]_vars

\* a post was counted as filtered out, and the next one, which the filter
\* would leave out too, ended the loop at the Incremental Ceiling
C32_Witness ==
    /\ cres = "False"
    /\ decision = "stop: incremental"
    /\ FilterRejects(cpost)
    /\ filter_skipped = 1
    /\ enqueued = <<>>
    /\ Len(visited[1]) = 2

\* C33: runs that continue or are incremental have no_post_clobber set, and
\* with it set a post whose file exists when the loop visits it is not
\* enqueued and not counted: no Work Item will write over the file.
C33_ExistingPostNotEnqueued ==
    /\ []((options.resume \/ options.incremental) => options.no_post_clobber)
    /\ [][(Visits /\ options.no_post_clobber /\ cpost'.exists) =>
              UNCHANGED <<enqueued, post_count>>]_vars

\* continuing, the loop passed over a post that is on disk and that every
\* other check would have let through
C33_Witness ==
    /\ options.resume
    /\ decision = "continue: exists"
    /\ cpost.exists
    /\ cres = "loop"
    /\ enqueued = <<>>
    /\ post_count = 1

\* C34: a post visited whose date is at or after the 'before' bound is never
\* enqueued; with a source that is not dashboard-only _backup raises
\* RuntimeError, with a dashboard-only one the post is passed over and the loop
\* goes on with the next post.
C34_DateAtOrAfterBefore ==
    [][(Visits /\ DateViolates(cpost')) =>
          /\ UNCHANGED <<enqueued, post_count, filter_skipped>>
          /\ cres' = IF dashboard_only_blog = "True" THEN "loop" ELSE "RuntimeError"]_vars

\* with a dashboard-only source a post dated at 'before' was passed over and
\* the post after it enqueued
C34_Witness ==
    /\ dashboard_only_blog = "True"
    /\ before # None
    /\ Len(visited[1]) = 2
    /\ enqueued = <<visited[1][2]>>
    /\ decision = "enqueue"
    /\ cpost.date < before

----------------------------------------------------------------------------
(* Properties of the stop conditions *)

\* the newest key saved when backup() began: the highest post id on disk, or
\* with likes the latest liked_timestamp of the posts on disk
NewestSavedKey ==
    IF options.likes THEN MaxOf({ timestamp[p] : p \in post_glob0 })
    ELSE MaxOf(post_glob0)

\* backup() runs incrementally over an archive that holds posts
Incremental ==
    /\ proc = "running"
    /\ bpc \in {"loop", "batch", "wait"}
    /\ options.incremental
    /\ post_glob0 # {}

\* the loop has stopped for this target
Stopped == bpc \notin {"loop", "batch"}

\* the post visited last so far
LastVisited(j, k) == j = Len(visited) /\ k = Len(visited[j])

\* once the loop has stopped nothing more is fetched, visited or enqueued
NothingAfterStop ==
    [][(bpc = "wait" /\ bpc' # "plan") =>
           UNCHANGED <<enqueued, visited, pages, source_calls>>]_vars

\* the loop stops at an empty page and when the count limit is reached
StopsAtEmptyPageAndLimit ==
    bpc \in {"loop", "batch", "wait"} =>
        /\ \A j \in 1..Len(pages) : pages[j] = <<>> => (j = Len(pages) /\ Stopped)
        /\ (options.count # None /\ enqueued # <<>> /\ post_count >= options.count)
               => Stopped

\* C30: incrementally, with M the newest key saved before, no post of key <= M
\* is enqueued and the first post of key <= M visited is the last one visited,
\* the loop having stopped there; after a stop (Incremental Ceiling, count
\* limit, empty page) nothing more is visited, enqueued or fetched.
C30_StopsAtNewestSaved ==
    /\ [](Incremental =>
             /\ \A j \in 1..Len(enqueued) : sort_key[enqueued[j]] > NewestSavedKey
             /\ \A j \in 1..Len(visited) : \A k \in 1..Len(visited[j]) :
                    sort_key[visited[j][k]] <= NewestSavedKey =>
                        (LastVisited(j, k) /\ Stopped))
    /\ [](StopsAtEmptyPageAndLimit)
    /\ NothingAfterStop

----------------------------------------------------------------------------
(* Properties of the end of the driver loop *)

\* this step raises an exception inside the driver loop, which backup()'s
\* except clause sees: one of the loop's own, KeyboardInterrupt or SystemExit
RaisesInLoop ==
    /\ proc = "running"
    /\ bpc \in {"loop", "batch"}
    /\ proc' # "running"

\* this step runs Finalization: it counts the target's posts, builds the index
\* and goes on to the next target
Finalizes ==
    /\ bpc \in {"wait", "pool"}
    /\ bpc' = "main"

\* C29: Finalization runs only from the blocking wait after the loop, and
\* leaves nothing pending; an exception raised inside the loop cancels the
\* ThreadPool, so that nothing stays pending, Finalization is not run (no
\* posts counted, no completion marker, no post failure recorded), and the
\* target is recorded as failed.
C29_LoopEndOrdered ==
    /\ [][Finalizes => pending' = {}]_vars
    /\ [][RaisesInLoop =>
              /\ pending' = {}
              /\ UNCHANGED <<total_count, complete_backup, postfail_blogs>>
              /\ bpc' # "main"
              /\ blogs[acct] \in SeqToSet(failed_blogs')]_vars

----------------------------------------------------------------------------
(* Properties of the first-run-options marker *)

\* this step of backup() writes .first_run_options (BackupBegin and the
\* planner only turn to the archive of the target and read it)
WritesFirstRunOptions ==
    /\ bpc \notin {"main", "plan"}
    /\ first_run_options' # first_run_options

\* C28: .first_run_options is written only into an archive that had no such
\* file, no .complete and no post file when the planner looked, only by the
\* step in which get_initial succeeded, and with the options of the run; a
\* file that exists is never written again.
C28_FirstRunOptionsWrittenOnce ==
    [][WritesFirstRunOptions =>
          /\ ~first_run_options.file
          /\ ~complete_backup
          /\ post_glob0 = {}
          /\ bpc = "get_initial"
          /\ bpc' = "loop"
          /\ source_calls' = Append(source_calls, "get_initial")
          /\ first_run_options' = WrittenBy(orig_options)]_vars

\* a new archive got its marker, and the driver loop has begun
C28_Witness ==
    /\ bpc = "loop"
    /\ write_fro
    /\ post_glob0 = {}
    /\ ~complete_backup
    /\ first_run_options = WrittenBy(orig_options)
    /\ source_calls = <<"read_archive", "get_initial">>

----------------------------------------------------------------------------
(* Properties of the media list *)

\* no post id has two lines
OneLinePerPost(lines) ==
    \A j, k \in DOMAIN lines : lines[j] = lines[k] => j = k

\* C27: media.json is an append-log deduplicated by post id: between runs it
\* holds the entries the runs before it left there, and neither it nor the
\* file being written has two lines for one post id, whichever workers call
\* record_media.
C27_MediaListAppendLog ==
    /\ OneLinePerPost(media_json)
    /\ OneLinePerPost(media_list_file.lines)
    /\ ~media_list_file.open => mlf_earlier \subseteq SeqToSet(media_json)

=============================================================================
